---- MODULE Spec2Model ----
(***************************************************************************)
(* HBX Controls (hass_hbxcontrols): the polling coordinator that builds    *)
(* the device snapshot, the platform setups that create entities from it,  *)
(* and the entities' availability predicates.                              *)
(*                                                                         *)
(* The vendor client (pysensorlinx) is an external collaborator: what its  *)
(* calls return or raise during one poll is the input of that poll, drawn  *)
(* from VendorResponses.                                                   *)
(***************************************************************************)
EXTENDS Integers, Sequences, FiniteSets, TLC

VARIABLES
    data,                 \* coordinator.data: None or the last snapshot
    last_update_success,  \* coordinator.last_update_success
    last_exception,       \* what the last _async_update_data raised, "none" if it returned
    last_resp,            \* what the vendor client answered during the last poll
    entities,             \* the entities handed to async_add_entities so far
    platforms_done,       \* the platforms whose async_setup_entry has run
    entry_scan_interval,  \* entry.data.get("scan_interval"): None when the key is absent
    update_interval,      \* coordinator.update_interval, in seconds
    last_write,           \* the last entity write and the calls it made, in order
    hot_tank              \* the vendor's hot tank limits of one device, and the
                          \* Hot Tank Target writes under way on it

vars == <<data, last_update_success, last_exception, last_resp, entities, platforms_done,
          entry_scan_interval, update_interval, last_write, hot_tank>>

\* what the polls and the platform setups leave alone
config == <<entry_scan_interval, update_interval, last_write, hot_tank>>

-----------------------------------------------------------------------------
(* Python values. Every value carries its type, so that None, "off", a     *)
(* number and a dict can sit in the same parameter map.                    *)

None == [t |-> "none"]
Str(s) == [t |-> "str", v |-> s]
Num(n) == [t |-> "num", v |-> n]
Bool(b) == [t |-> "bool", v |-> b]
List(s) == [t |-> "list", v |-> s]
Dict(d) == [t |-> "dict", v |-> d]
\* pysensorlinx.Temperature(value, unit): an object, always truthy
Temperature(n) == [t |-> "temperature", v |-> n]

EmptyMap == [k \in {} |-> None]

\* Python truthiness (bool(x)), as used by `if not profile`, `if backup_state`
Truthy(x) ==
    CASE x.t = "none" -> FALSE
      [] x.t = "str" -> x.v # ""
      [] x.t = "num" -> x.v # 0
      [] x.t = "bool" -> x.v
      [] x.t = "list" -> Len(x.v) > 0
      [] x.t = "dict" -> DOMAIN x.v # {}
      [] OTHER -> TRUE

\* d[k] = v on a dict
Put(d, k, v) == [x \in DOMAIN d \cup {k} |-> IF x = k THEN v ELSE d[x]]

\* d.get(k), None when the key is absent
Get(d, k) == IF k \in DOMAIN d THEN d[k] ELSE None

OFF == Str("off")

-----------------------------------------------------------------------------
(* What one awaited vendor call does: it returns a value or raises.        *)

Ret(v) == [ok |-> TRUE, v |-> v]
Raise(e) == [ok |-> FALSE, exc |-> e]

\* exception classes a vendor call raises: the vendor's rejected-credentials
\* error, a transport error, and Home Assistant's ConfigEntryAuthFailed
AUTH_FAILED == "ConfigEntryAuthFailed"
UPDATE_FAILED == "UpdateFailed"
LOGIN_ERROR == "LoginError"
CLIENT_ERROR == "ClientError"

-----------------------------------------------------------------------------
(* The account the vendor serves when nothing goes wrong: two buildings    *)
(* with one device each. d1 has a sync code, d2 has none.                  *)

NoValue == ""   \* a device field that is absent, None or empty (all falsy)

Building1 == [id |-> "b1", name |-> "Building 1"]
Building2 == [id |-> "b2", name |-> "Building 2"]
\* a building in which no device is installed
Building3 == [id |-> "b3", name |-> "Building 3"]
BuildingIds == {"b1", "b2", "b3"}

Device1 == [id |-> "d1", syncCode |-> "S1", name |-> "ECO 1"]
Device2 == [id |-> "d2", syncCode |-> NoValue, name |-> "ECO 2"]
\* a device of building b2 whose id is the sync code of Device1
Device3 == [id |-> "S1", syncCode |-> NoValue, name |-> "ECO 3"]

\* the SensorlinxDevice helpers a poll can build: <<building_id, device_id>>
Helpers == {<<"b1", "S1">>, <<"b1", "d1">>, <<"b2", "d2">>, <<"b2", "S1">>}

NominalProfile == Dict([username |-> "user"])
NominalBuildings == List(<<Building1, Building2>>)
NominalDevices ==
    [b \in BuildingIds |->
        CASE b = "b1" -> List(<<Device1>>)
          [] b = "b2" -> List(<<Device2>>)
          [] OTHER -> List(<<>>)]

Stage1 == [title |-> "Stage 1", activated |-> TRUE, runTime |-> "100:05:30"]
Stage2 == [title |-> "Stage 2", activated |-> FALSE, runTime |-> "50:10:00"]
BackupDict == Dict([title |-> "Backup", activated |-> FALSE, runTime |-> "10:00:00"])

\* get_temperatures: name -> {"actual": Temperature|None, "target": Temperature|None}
TempsFull ==
    Dict([Tank |-> [actual |-> Temperature(120), target |-> Temperature(125)],
          Outdoor |-> [actual |-> Temperature(35), target |-> None]])
TempsNoTarget == Dict([Tank |-> [actual |-> Temperature(120), target |-> None]])
TempsOutdoor == Dict([Outdoor |-> [actual |-> Temperature(35), target |-> None]])

\* the per-device getters of one poll, in the order the coordinator awaits them
TEMPERATURES == "get_temperatures"
IsolatedGetters ==
    << [name |-> "get_permanent_heat_demand", key |-> "permanent_heat_demand", store |-> "always"],
       [name |-> "get_permanent_cool_demand", key |-> "permanent_cool_demand", store |-> "always"],
       [name |-> "get_hvac_mode_priority", key |-> "hvac_mode", store |-> "mode_map"],
       [name |-> "get_hot_tank_min_temp", key |-> "hot_tank_min_temp", store |-> "always"],
       [name |-> "get_hot_tank_max_temp", key |-> "hot_tank_max_temp", store |-> "always"],
       [name |-> "get_hot_tank_outdoor_reset", key |-> "hot_tank_outdoor_reset", store |-> "always"],
       [name |-> "get_cold_tank_min_temp", key |-> "cold_tank_min_temp", store |-> "always"],
       [name |-> "get_cold_tank_max_temp", key |-> "cold_tank_max_temp", store |-> "always"],
       [name |-> "get_cold_tank_outdoor_reset", key |-> "cold_tank_outdoor_reset", store |-> "always"],
       [name |-> "get_firmware_version", key |-> "firmware_version", store |-> "always"],
       [name |-> "get_device_type", key |-> "device_type", store |-> "always"],
       [name |-> "get_warm_weather_shutdown", key |-> "warm_weather_shutdown", store |-> "always"],
       [name |-> "get_cold_weather_shutdown", key |-> "cold_weather_shutdown", store |-> "always"],
       [name |-> "get_heatpump_stages_state", key |-> "heatpump_stages", store |-> "if_truthy"],
       [name |-> "get_backup_state", key |-> "backup_state", store |-> "if_truthy"] >>

IsolatedNames == {IsolatedGetters[i].name : i \in 1..Len(IsolatedGetters)}
GetterNames == {TEMPERATURES} \cup IsolatedNames

NominalGetters ==
    [g \in GetterNames |->
        CASE g = TEMPERATURES -> Ret(TempsFull)
          [] g = "get_permanent_heat_demand" -> Ret(Bool(FALSE))
          [] g = "get_permanent_cool_demand" -> Ret(Bool(FALSE))
          [] g = "get_hvac_mode_priority" -> Ret(Num(0))
          [] g = "get_hot_tank_min_temp" -> Ret(Temperature(100))
          [] g = "get_hot_tank_max_temp" -> Ret(Temperature(140))
          [] g = "get_hot_tank_outdoor_reset" -> Ret(OFF)
          [] g = "get_cold_tank_min_temp" -> Ret(Temperature(40))
          [] g = "get_cold_tank_max_temp" -> Ret(Temperature(55))
          [] g = "get_cold_tank_outdoor_reset" -> Ret(OFF)
          [] g = "get_firmware_version" -> Ret(Str("1.2.3"))
          [] g = "get_device_type" -> Ret(Str("ECO"))
          [] g = "get_warm_weather_shutdown" -> Ret(OFF)
          [] g = "get_cold_weather_shutdown" -> Ret(OFF)
          [] g = "get_heatpump_stages_state" -> Ret(List(<<Stage1, Stage2>>))
          [] OTHER -> Ret(BackupDict)]

\* what else a getter may answer: it raises, or returns another value
OtherAnswers(g) ==
    {Raise(CLIENT_ERROR)} \cup
    CASE g = TEMPERATURES -> {Ret(None), Ret(TempsNoTarget), Ret(TempsOutdoor)}
      [] g = "get_permanent_heat_demand" -> {Ret(Bool(TRUE))}
      [] g = "get_permanent_cool_demand" -> {Ret(Bool(TRUE))}
      [] g = "get_hvac_mode_priority" -> {Ret(Num(1)), Ret(Num(2)), Ret(Num(3)), Ret(None)}
      [] g = "get_hot_tank_max_temp" -> {Ret(Temperature(100))}
      [] g = "get_hot_tank_outdoor_reset" -> {Ret(Temperature(0))}
      [] g = "get_cold_tank_max_temp" -> {Ret(Temperature(40))}
      [] g = "get_cold_tank_outdoor_reset" -> {Ret(Temperature(0))}
      [] g = "get_firmware_version" -> {Ret(None)}
      [] g = "get_device_type" -> {Ret(None)}
      [] g = "get_warm_weather_shutdown" -> {Ret(Temperature(70))}
      [] g = "get_cold_weather_shutdown" -> {Ret(Temperature(30))}
      [] g = "get_heatpump_stages_state" -> {Ret(List(<<>>)), Ret(List(<<Stage1>>)), Ret(List(<<Stage2>>))}
      [] g = "get_backup_state" -> {Ret(None), Ret(Dict(EmptyMap))}
      [] OTHER -> {}

NominalResponse ==
    [login |-> Ret(None),
     get_profile |-> Ret(NominalProfile),
     get_buildings |-> Ret(NominalBuildings),
     get_devices |-> [b \in BuildingIds |-> Ret(NominalDevices[b])],
     getters |-> [h \in Helpers |-> NominalGetters]]

\* one vendor call answering differently from NominalResponse
Faults ==
    {[site |-> "login", alt |-> Raise(e)] : e \in {LOGIN_ERROR, CLIENT_ERROR, AUTH_FAILED}}
    \cup {[site |-> "get_profile", alt |-> a] :
            a \in {Ret(None), Ret(Dict(EmptyMap)), Raise(CLIENT_ERROR), Raise(LOGIN_ERROR),
                   Raise(AUTH_FAILED)}}
    \cup {[site |-> "get_buildings", alt |-> a] :
            a \in {Ret(None), Ret(List(<<>>)), Ret(List(<<Building1>>)), Ret(List(<<Building2>>)),
                   Ret(List(<<Building3>>)),
                   Raise(CLIENT_ERROR), Raise(LOGIN_ERROR), Raise(AUTH_FAILED)}}
    \cup {[site |-> "get_devices", b |-> b, alt |-> a] :
            b \in BuildingIds,
            a \in {Ret(None), Ret(List(<<>>)), Raise(CLIENT_ERROR), Raise(AUTH_FAILED)}}
    \cup {[site |-> "get_devices", b |-> "b2", alt |-> Ret(List(<<Device2, Device3>>))]}
    \cup UNION {{[site |-> "getter", h |-> h, g |-> g, alt |-> a] : a \in OtherAnswers(g)} :
                    h \in Helpers, g \in GetterNames}

WithFault(r, f) ==
    CASE f.site = "login" -> [r EXCEPT !.login = f.alt]
      [] f.site = "get_profile" -> [r EXCEPT !.get_profile = f.alt]
      [] f.site = "get_buildings" -> [r EXCEPT !.get_buildings = f.alt]
      [] f.site = "get_devices" -> [r EXCEPT !.get_devices[f.b] = f.alt]
      [] OTHER -> [r EXCEPT !.getters[f.h][f.g] = f.alt]

\* how many vendor calls of one poll may differ from NominalResponse
MaxFaults == 1

RECURSIVE ResponsesWith(_, _)
ResponsesWith(faults, n) ==
    IF n = 0 THEN {NominalResponse}
    ELSE LET R == ResponsesWith(faults, n - 1)
         IN  R \cup {WithFault(r, f) : r \in R, f \in faults}

-----------------------------------------------------------------------------
(* HBXControlsDataUpdateCoordinator._async_update_data, as a function of   *)
(* what the vendor answers during the poll.                                *)

\* f"temperature_{temp_name.lower().replace(' ', '_')}" for the names the vendor uses
TemperatureKey(name) ==
    CASE name = "Tank" -> "temperature_tank"
      [] name = "Outdoor" -> "temperature_outdoor"
      [] OTHER -> "temperature_other"
TargetTemperatureKey(name) ==
    CASE name = "Tank" -> "target_temperature_tank"
      [] name = "Outdoor" -> "target_temperature_outdoor"
      [] OTHER -> "target_temperature_other"

\* the loop over temps.items(): actual and target, each stored when truthy
TemperatureParameters(temps) ==
    IF ~Truthy(temps) THEN EmptyMap
    ELSE LET names == DOMAIN temps.v
             keys == {TemperatureKey(n) : n \in {m \in names : Truthy(temps.v[m].actual)}}
                     \cup {TargetTemperatureKey(n) : n \in {m \in names : Truthy(temps.v[m].target)}}
         IN  [k \in keys |->
                LET n == CHOOSE m \in names : k \in {TemperatureKey(m), TargetTemperatureKey(m)}
                IN  IF k = TemperatureKey(n) THEN Num(temps.v[n].actual.v)
                    ELSE Num(temps.v[n].target.v)]

\* mode_map.get(hvac_mode): no default for the priorities the map lacks
ModeMapNoDefault(priority) ==
    CASE priority = Num(0) -> Str("heat")
      [] priority = Num(1) -> Str("cool")
      [] priority = Num(2) -> Str("auto")
      [] OTHER -> None

\* mode_map.get(hvac_mode, "auto")
ModeMap(priority) ==
    CASE priority = Num(0) -> Str("heat")
      [] priority = Num(1) -> Str("cool")
      [] priority = Num(2) -> Str("auto")
      [] OTHER -> Str("auto")

\* one getter in its own try/except: a raise is swallowed and the key left out
FetchOne(getter, parameters, answers) ==
    LET a == answers[getter.name]
    IN  IF ~a.ok THEN parameters
        ELSE CASE getter.store = "always" -> Put(parameters, getter.key, a.v)
               [] getter.store = "mode_map" -> Put(parameters, getter.key, ModeMap(a.v))
               [] OTHER -> IF Truthy(a.v) THEN Put(parameters, getter.key, a.v) ELSE parameters

RECURSIVE FetchFrom(_, _, _)
FetchFrom(i, parameters, answers) ==
    IF i > Len(IsolatedGetters) THEN parameters
    ELSE FetchFrom(i + 1, FetchOne(IsolatedGetters[i], parameters, answers), answers)

\* the outer try of the parameter extraction: get_temperatures is awaited
\* directly in it, so its raise skips every getter after it
ExtractParameters(answers) ==
    LET temps == answers[TEMPERATURES]
    IN  IF ~temps.ok THEN EmptyMap
        ELSE FetchFrom(1, TemperatureParameters(temps.v), answers)

\* variant: the id is taken even when the device has a sync code
DeviceIdOnly(device) == device.id

\* device.get("syncCode") or device.get("id")
DeviceId(device) == IF device.syncCode # NoValue THEN device.syncCode ELSE device.id

\* variant: the poll starts from the devices of the previous snapshot
CarriedDevices(previous) == IF previous = None THEN EmptyMap ELSE previous.v.devices

\* the devices dict a poll starts from: `devices = {}`
FreshDevices(previous) == EmptyMap

\* variant: the building id is not recorded on the device
StoredWithoutBuilding(device, parameters, building_id) ==
    [id |-> device.id, syncCode |-> device.syncCode, name |-> device.name,
     parameters |-> parameters, building_id |-> NoValue]

\* device["parameters"] = parameters; device["building_id"] = building_id
StoredDevice(device, parameters, building_id) ==
    [id |-> device.id, syncCode |-> device.syncCode, name |-> device.name,
     parameters |-> parameters, building_id |-> building_id]

RECURSIVE DevicesOfBuilding(_, _, _, _, _)

\* variant: a device whose key is already in the dict is left out
DevicesOfBuildingKeepFirst(listed, j, building_id, devices, resp) ==
    IF j > Len(listed) THEN devices
    ELSE LET device == listed[j]
             device_id == DeviceId(device)
             parameters == ExtractParameters(resp.getters[<<building_id, device_id>>])
             stored == StoredDevice(device, parameters, building_id)
             next == IF device_id \in DOMAIN devices THEN devices
                     ELSE Put(devices, device_id, stored)
         IN  DevicesOfBuilding(listed, j + 1, building_id, next, resp)

\* `for device in building_devices: ... devices[device_id] = device`
DevicesOfBuilding(listed, j, building_id, devices, resp) ==
    IF j > Len(listed) THEN devices
    ELSE LET device == listed[j]
             device_id == DeviceId(device)
             parameters == ExtractParameters(resp.getters[<<building_id, device_id>>])
             stored == StoredDevice(device, parameters, building_id)
         IN  DevicesOfBuilding(listed, j + 1, building_id, Put(devices, device_id, stored), resp)

\* one building: get_devices in its own try/except Exception
RECURSIVE DevicesOfBuildings(_, _, _, _)
DevicesOfBuildings(buildings, i, devices, resp) ==
    IF i > Len(buildings) THEN devices
    ELSE LET building_id == buildings[i].id
             a == resp.get_devices[building_id]
             next == IF a.ok /\ Truthy(a.v)
                     THEN DevicesOfBuilding(a.v.v, 1, building_id, devices, resp)
                     ELSE devices
         IN  DevicesOfBuildings(buildings, i + 1, next, resp)

\* variant: an account without buildings makes the body raise
UpdateBodyNeedsBuildings(previous, resp) ==
    IF ~resp.login.ok THEN Raise(resp.login.exc)
    ELSE IF ~resp.get_profile.ok THEN Raise(resp.get_profile.exc)
    ELSE IF ~Truthy(resp.get_profile.v) THEN Raise(AUTH_FAILED)
    ELSE IF ~resp.get_buildings.ok THEN Raise(resp.get_buildings.exc)
    ELSE IF ~Truthy(resp.get_buildings.v) THEN Raise(CLIENT_ERROR)
    ELSE LET buildings == resp.get_buildings.v.v
             devices == DevicesOfBuildings(buildings, 1, FreshDevices(previous), resp)
         IN  Ret(Dict([profile |-> resp.get_profile.v,
                       buildings |-> buildings,
                       devices |-> devices]))

\* the body of the outer try: a return value or the exception that leaves it
UpdateBody(previous, resp) ==
    IF ~resp.login.ok THEN Raise(resp.login.exc)
    ELSE IF ~resp.get_profile.ok THEN Raise(resp.get_profile.exc)
    ELSE IF ~Truthy(resp.get_profile.v) THEN Raise(AUTH_FAILED)
    ELSE IF ~resp.get_buildings.ok THEN Raise(resp.get_buildings.exc)
    ELSE LET buildings == IF Truthy(resp.get_buildings.v) THEN resp.get_buildings.v.v ELSE <<>>
             devices == DevicesOfBuildings(buildings, 1, FreshDevices(previous), resp)
         IN  Ret(Dict([profile |-> resp.get_profile.v,
                       buildings |-> buildings,
                       devices |-> devices]))

\* one awaited vendor call: its name and, where it has them, the building and
\* the device it is addressed to
Call(name, building_id, device_id) ==
    [name |-> name, building_id |-> building_id, device_id |-> device_id]

\* the calls of one device's parameter extraction: get_temperatures, and when
\* it returned every getter after it, each in its own try
GetterCalls(building_id, device_id, answers) ==
    <<Call(TEMPERATURES, building_id, device_id)>>
    \o IF answers[TEMPERATURES].ok
       THEN [i \in 1..Len(IsolatedGetters) |->
                Call(IsolatedGetters[i].name, building_id, device_id)]
       ELSE <<>>

\* `for device in building_devices`
RECURSIVE DeviceCalls(_, _, _, _)
DeviceCalls(listed, j, building_id, resp) ==
    IF j > Len(listed) THEN <<>>
    ELSE LET device_id == DeviceId(listed[j])
         IN  GetterCalls(building_id, device_id, resp.getters[<<building_id, device_id>>])
             \o DeviceCalls(listed, j + 1, building_id, resp)

RECURSIVE BuildingCalls(_, _, _)

\* variant: a building's devices are listed after their parameters were fetched
BuildingCallsListLast(buildings, i, resp) ==
    IF i > Len(buildings) THEN <<>>
    ELSE LET building_id == buildings[i].id
             a == resp.get_devices[building_id]
         IN  (IF a.ok /\ Truthy(a.v) THEN DeviceCalls(a.v.v, 1, building_id, resp) ELSE <<>>)
             \o <<Call("get_devices", building_id, NoValue)>>
             \o BuildingCalls(buildings, i + 1, resp)

\* `for building in buildings`: get_devices, then the building's devices
BuildingCalls(buildings, i, resp) ==
    IF i > Len(buildings) THEN <<>>
    ELSE LET building_id == buildings[i].id
             a == resp.get_devices[building_id]
         IN  <<Call("get_devices", building_id, NoValue)>>
             \o (IF a.ok /\ Truthy(a.v) THEN DeviceCalls(a.v.v, 1, building_id, resp) ELSE <<>>)
             \o BuildingCalls(buildings, i + 1, resp)

\* the vendor calls one poll awaits, in the order it awaits them
PollCalls(resp) ==
    <<Call("login", NoValue, NoValue)>>
    \o IF ~resp.login.ok THEN <<>>
       ELSE <<Call("get_profile", NoValue, NoValue)>>
            \o IF ~resp.get_profile.ok \/ ~Truthy(resp.get_profile.v) THEN <<>>
               ELSE <<Call("get_buildings", NoValue, NoValue)>>
                    \o IF ~resp.get_buildings.ok \/ ~Truthy(resp.get_buildings.v) THEN <<>>
                       ELSE BuildingCalls(resp.get_buildings.v.v, 1, resp)

\* variant: every exception leaving the body is wrapped in UpdateFailed
ExceptClausesWrapAll(exc) == UPDATE_FAILED

\* variant: the exception leaving the body is raised as it is
ExceptClausesReraise(exc) == exc

\* except ConfigEntryAuthFailed: raise / except Exception: raise UpdateFailed
ExceptClauses(exc) == IF exc = AUTH_FAILED THEN AUTH_FAILED ELSE UPDATE_FAILED

\* variant: the body without its except clauses
AsyncUpdateDataUncaught(previous, resp) == UpdateBody(previous, resp)

\* _async_update_data: the body, and the except clauses for what leaves it
AsyncUpdateData(previous, resp) ==
    LET body == UpdateBody(previous, resp)
    IN  IF body.ok THEN body ELSE Raise(ExceptClauses(body.exc))

-----------------------------------------------------------------------------
(* The vendor calls a poll makes, to keep one response per behaviour of    *)
(* the poll: an answer that differs from the nominal one is an answer to a *)
(* call the poll makes.                                                    *)

BuildingsListed(resp) ==
    IF resp.login.ok /\ resp.get_profile.ok /\ Truthy(resp.get_profile.v)
       /\ resp.get_buildings.ok /\ Truthy(resp.get_buildings.v)
    THEN {resp.get_buildings.v.v[i].id : i \in 1..Len(resp.get_buildings.v.v)}
    ELSE {}

HelpersBuilt(resp) ==
    {h \in Helpers :
        /\ h[1] \in BuildingsListed(resp)
        /\ resp.get_devices[h[1]].ok
        /\ Truthy(resp.get_devices[h[1]].v)
        /\ \E j \in 1..Len(resp.get_devices[h[1]].v.v) :
              DeviceId(resp.get_devices[h[1]].v.v[j]) = h[2]}

GettersCalled(resp, h) ==
    IF h \notin HelpersBuilt(resp) THEN {}
    ELSE IF resp.getters[h][TEMPERATURES].ok THEN GetterNames ELSE {TEMPERATURES}

OnlyCalledDiffer(resp) ==
    /\ ~resp.login.ok => resp.get_profile = NominalResponse.get_profile
    /\ ~(resp.login.ok /\ resp.get_profile.ok /\ Truthy(resp.get_profile.v))
          => resp.get_buildings = NominalResponse.get_buildings
    /\ \A b \in BuildingIds \ BuildingsListed(resp) :
          resp.get_devices[b] = NominalResponse.get_devices[b]
    /\ \A h \in Helpers : \A g \in GetterNames \ GettersCalled(resp, h) :
          resp.getters[h][g] = NominalGetters[g]

VendorResponses == {r \in ResponsesWith(Faults, MaxFaults) : OnlyCalledDiffer(r)}

\* the faults the entities' lifecycle is followed under: the update fails, a
\* building or a device is no longer listed, a key is no longer fetched, a
\* parameter changes value
LifecycleFaults ==
    {f \in Faults :
        \/ f.site = "login" /\ f.alt = Raise(CLIENT_ERROR)
        \/ f.site = "get_profile" /\ f.alt = Ret(None)
        \/ f.site = "get_buildings" /\ f.alt \in {Ret(List(<<>>)), Ret(List(<<Building1>>))}
        \/ f.site = "get_devices" /\ f.alt \in {Ret(List(<<>>)), Raise(CLIENT_ERROR)}
        \/ /\ f.site = "getter"
           /\ f.h = <<"b1", "S1">>
           /\ \/ f.g \in {TEMPERATURES, "get_hot_tank_min_temp", "get_hvac_mode_priority"}
                 /\ f.alt = Raise(CLIENT_ERROR)
              \/ f.g = "get_hot_tank_outdoor_reset" /\ f.alt.ok
              \/ f.g = "get_heatpump_stages_state" /\ f.alt = Ret(List(<<Stage1>>))
              \/ f.g = "get_backup_state" /\ f.alt = Ret(None)}

MaxLifecycleFaults == 1

LifecycleResponses ==
    {r \in ResponsesWith(LifecycleFaults, MaxLifecycleFaults) : OnlyCalledDiffer(r)}

-----------------------------------------------------------------------------
(* The coordinator.                                                        *)

NoResponse == [login |-> Raise("not polled")]

\* const.py
DEFAULT_SCAN_INTERVAL == 300
MIN_SCAN_INTERVAL == 60
MAX_SCAN_INTERVAL == 3600

\* scan_interval = entry.data.get(CONF_SCAN_INTERVAL, DEFAULT_SCAN_INTERVAL), and
\* update_interval = timedelta(seconds=scan_interval)
UpdateInterval(configured) ==
    IF configured = None THEN DEFAULT_SCAN_INTERVAL ELSE configured.v

\* no entity has been written to
NoWrite == [cls |-> NoValue]

MaxWriters == 2

\* the values async_set_native_value is called with, in tenths of a degree
TargetValues == {1200, 1250, 1305}

\* a device whose hot tank min and max are equal, no write under way: each
\* caller of async_set_native_value is before its first await
IdleTank ==
    [min |-> 1250, max |-> 1250,
     at |-> [w \in 1..MaxWriters |-> "idle"],
     temp |-> [w \in 1..MaxWriters |-> 1250]]

Init ==
    /\ data = None
    /\ last_update_success = TRUE
    /\ last_exception = "none"
    /\ last_resp = NoResponse
    /\ entities = {}
    /\ platforms_done = {}
    /\ entry_scan_interval = Num(DEFAULT_SCAN_INTERVAL)
    /\ update_interval = UpdateInterval(entry_scan_interval)
    /\ last_write = NoWrite
    /\ hot_tank = IdleTank

\* One refresh of the DataUpdateCoordinator: _async_update_data runs against
\* the vendor; its return value becomes coordinator.data, its exception
\* leaves coordinator.data as it was and clears last_update_success.
Refresh(responses) ==
    \E resp \in responses :
        LET out == AsyncUpdateData(data, resp)
        IN  /\ last_resp' = resp
            /\ IF out.ok
               THEN /\ data' = out.v
                    /\ last_update_success' = TRUE
                    /\ last_exception' = "none"
               ELSE /\ data' = data
                    /\ last_update_success' = FALSE
                    /\ last_exception' = out.exc
            /\ UNCHANGED <<entities, platforms_done, config>>

\* the first refresh of a config entry, against anything the vendor may answer
FirstRefresh ==
    /\ last_resp = NoResponse
    /\ Refresh(VendorResponses)

\* a refresh on the update interval or requested after a write
Poll == Refresh(LifecycleResponses)

\* the refresh the update interval schedules, when the vendor answers as in the tests
ScheduledRefresh ==
    /\ last_resp = NoResponse
    /\ Refresh({NominalResponse})

-----------------------------------------------------------------------------
(* The platforms: which entity classes async_setup_entry creates from the  *)
(* snapshot, and the key, availability rule and gating key of each class.  *)
(* avail: "device" = the device is in the snapshot; "key" = and gate is a  *)
(* key of its parameters; "not_off" = and the gate parameter is neither    *)
(* "off" nor None; "off_or_none" = and the gate parameter is "off" or      *)
(* None; "two_stage" = TwoStageHeatPumpSwitch.available.                   *)

SwitchSetup ==
    << [key |-> "hot_tank_outdoor_reset", cls |-> "HotTankOutdoorResetSwitch"],
       [key |-> "cold_tank_outdoor_reset", cls |-> "ColdTankOutdoorResetSwitch"],
       [key |-> "permanent_heat_demand", cls |-> "PermanentHeatDemandSwitch"],
       [key |-> "permanent_cool_demand", cls |-> "PermanentCoolDemandSwitch"],
       [key |-> "warm_weather_shutdown", cls |-> "WarmWeatherShutdownSwitch"],
       [key |-> "cold_weather_shutdown", cls |-> "ColdWeatherShutdownSwitch"],
       [key |-> "rotate_cycles", cls |-> "RotateCyclesSwitch"],
       [key |-> "rotate_time", cls |-> "RotateTimeSwitch"],
       [key |-> "off_staging", cls |-> "SynchronizedStageOffSwitch"],
       [key |-> "backup_lag_time", cls |-> "BackupLagTimeSwitch"],
       [key |-> "backup_differential", cls |-> "BackupDifferentialSwitch"],
       [key |-> "backup_only_outdoor_temp", cls |-> "BackupOnlyOutdoorTempSwitch"],
       [key |-> "backup_temp", cls |-> "BackupTempSwitch"],
       [key |-> "wide_priority_differential", cls |-> "WidePriorityDifferentialSwitch"],
       [key |-> "two_stage_heat_pump", cls |-> "TwoStageHeatPumpSwitch"],
       [key |-> "backup_only_tank_temp", cls |-> "BackupOnlyTankTempSwitch"] >>

SwitchClasses ==
    << [cls |-> "HotTankOutdoorResetSwitch", read_key |-> "hot_tank_outdoor_reset", avail |-> "device", gate |-> ""],
       [cls |-> "PermanentHeatDemandSwitch", read_key |-> "permanent_heat_demand", avail |-> "device", gate |-> ""],
       [cls |-> "PermanentCoolDemandSwitch", read_key |-> "permanent_cool_demand", avail |-> "device", gate |-> ""],
       [cls |-> "ColdTankOutdoorResetSwitch", read_key |-> "cold_tank_outdoor_reset", avail |-> "device", gate |-> ""],
       [cls |-> "WarmWeatherShutdownSwitch", read_key |-> "warm_weather_shutdown", avail |-> "device", gate |-> ""],
       [cls |-> "ColdWeatherShutdownSwitch", read_key |-> "cold_weather_shutdown", avail |-> "device", gate |-> ""],
       [cls |-> "RotateCyclesSwitch", read_key |-> "rotate_cycles", avail |-> "device", gate |-> ""],
       [cls |-> "RotateTimeSwitch", read_key |-> "rotate_time", avail |-> "device", gate |-> ""],
       [cls |-> "SynchronizedStageOffSwitch", read_key |-> "off_staging", avail |-> "device", gate |-> ""],
       [cls |-> "BackupLagTimeSwitch", read_key |-> "backup_lag_time", avail |-> "device", gate |-> ""],
       [cls |-> "BackupDifferentialSwitch", read_key |-> "backup_differential", avail |-> "device", gate |-> ""],
       [cls |-> "BackupOnlyOutdoorTempSwitch", read_key |-> "backup_only_outdoor_temp", avail |-> "device", gate |-> ""],
       [cls |-> "BackupTempSwitch", read_key |-> "backup_temp", avail |-> "device", gate |-> ""],
       [cls |-> "WidePriorityDifferentialSwitch", read_key |-> "wide_priority_differential", avail |-> "key", gate |-> "wide_priority_differential"],
       [cls |-> "TwoStageHeatPumpSwitch", read_key |-> "two_stage_heat_pump", avail |-> "two_stage", gate |-> "two_stage_heat_pump"],
       [cls |-> "BackupOnlyTankTempSwitch", read_key |-> "backup_only_tank_temp", avail |-> "device", gate |-> ""] >>

NumberSetup ==
    << [key |-> "hot_tank_min_temp", cls |-> "HotTankTargetTemperature"],
       [key |-> "hot_tank_min_temp", cls |-> "HotTankMinTemperature"],
       [key |-> "hot_tank_max_temp", cls |-> "HotTankMaxTemperature"],
       [key |-> "hot_tank_outdoor_reset", cls |-> "HotTankOutdoorReset"],
       [key |-> "cold_tank_min_temp", cls |-> "ColdTankTargetTemperature"],
       [key |-> "cold_tank_min_temp", cls |-> "ColdTankMinTemperature"],
       [key |-> "cold_tank_max_temp", cls |-> "ColdTankMaxTemperature"],
       [key |-> "cold_tank_outdoor_reset", cls |-> "ColdTankOutdoorReset"],
       [key |-> "warm_weather_shutdown", cls |-> "WarmWeatherShutdown"],
       [key |-> "cold_weather_shutdown", cls |-> "ColdWeatherShutdown"],
       [key |-> "stage_on_lag_time", cls |-> "StageOnLagTime"],
       [key |-> "stage_off_lag_time", cls |-> "StageOffLagTime"],
       [key |-> "rotate_cycles", cls |-> "RotateCycles"],
       [key |-> "rotate_time", cls |-> "RotateTime"],
       [key |-> "backup_lag_time", cls |-> "BackupLagTime"],
       [key |-> "backup_differential", cls |-> "BackupDifferential"],
       [key |-> "hot_tank_differential", cls |-> "HotTankDifferential"],
       [key |-> "cold_tank_differential", cls |-> "ColdTankDifferential"],
       [key |-> "backup_only_outdoor_temp", cls |-> "BackupOnlyOutdoorTemp"],
       [key |-> "number_of_stages", cls |-> "NumberOfStages"],
       [key |-> "backup_temp", cls |-> "BackupTemp"],
       [key |-> "weather_shutdown_lag_time", cls |-> "WeatherShutdownLagTime"],
       [key |-> "heat_cool_switch_delay", cls |-> "HeatCoolSwitchDelay"],
       [key |-> "backup_only_tank_temp", cls |-> "BackupOnlyTankTemp"] >>

NumberClasses ==
    << [cls |-> "HotTankTargetTemperature", read_key |-> "target_temperature_tank", avail |-> "off_or_none", gate |-> "hot_tank_outdoor_reset"],
       [cls |-> "HotTankMinTemperature", read_key |-> "hot_tank_min_temp", avail |-> "not_off", gate |-> "hot_tank_outdoor_reset"],
       [cls |-> "HotTankMaxTemperature", read_key |-> "hot_tank_max_temp", avail |-> "not_off", gate |-> "hot_tank_outdoor_reset"],
       [cls |-> "HotTankOutdoorReset", read_key |-> "hot_tank_outdoor_reset", avail |-> "not_off", gate |-> "hot_tank_outdoor_reset"],
       [cls |-> "ColdTankTargetTemperature", read_key |-> "cold_tank_min_temp", avail |-> "off_or_none", gate |-> "cold_tank_outdoor_reset"],
       [cls |-> "ColdTankMinTemperature", read_key |-> "cold_tank_min_temp", avail |-> "not_off", gate |-> "cold_tank_outdoor_reset"],
       [cls |-> "ColdTankMaxTemperature", read_key |-> "cold_tank_max_temp", avail |-> "not_off", gate |-> "cold_tank_outdoor_reset"],
       [cls |-> "ColdTankOutdoorReset", read_key |-> "cold_tank_outdoor_reset", avail |-> "not_off", gate |-> "cold_tank_outdoor_reset"],
       [cls |-> "WarmWeatherShutdown", read_key |-> "warm_weather_shutdown", avail |-> "not_off", gate |-> "warm_weather_shutdown"],
       [cls |-> "ColdWeatherShutdown", read_key |-> "cold_weather_shutdown", avail |-> "not_off", gate |-> "cold_weather_shutdown"],
       [cls |-> "StageOnLagTime", read_key |-> "stage_on_lag_time", avail |-> "key", gate |-> "stage_on_lag_time"],
       [cls |-> "StageOffLagTime", read_key |-> "stage_off_lag_time", avail |-> "key", gate |-> "stage_off_lag_time"],
       [cls |-> "RotateCycles", read_key |-> "rotate_cycles", avail |-> "not_off", gate |-> "rotate_cycles"],
       [cls |-> "RotateTime", read_key |-> "rotate_time", avail |-> "not_off", gate |-> "rotate_time"],
       [cls |-> "BackupLagTime", read_key |-> "backup_lag_time", avail |-> "not_off", gate |-> "backup_lag_time"],
       [cls |-> "BackupDifferential", read_key |-> "backup_differential", avail |-> "not_off", gate |-> "backup_differential"],
       [cls |-> "HotTankDifferential", read_key |-> "hot_tank_differential", avail |-> "key", gate |-> "hot_tank_differential"],
       [cls |-> "ColdTankDifferential", read_key |-> "cold_tank_differential", avail |-> "key", gate |-> "cold_tank_differential"],
       [cls |-> "BackupOnlyOutdoorTemp", read_key |-> "backup_only_outdoor_temp", avail |-> "not_off", gate |-> "backup_only_outdoor_temp"],
       [cls |-> "NumberOfStages", read_key |-> "number_of_stages", avail |-> "key", gate |-> "number_of_stages"],
       [cls |-> "BackupTemp", read_key |-> "backup_temp", avail |-> "not_off", gate |-> "backup_temp"],
       [cls |-> "WeatherShutdownLagTime", read_key |-> "weather_shutdown_lag_time", avail |-> "key", gate |-> "weather_shutdown_lag_time"],
       [cls |-> "HeatCoolSwitchDelay", read_key |-> "heat_cool_switch_delay", avail |-> "key", gate |-> "heat_cool_switch_delay"],
       [cls |-> "BackupOnlyTankTemp", read_key |-> "backup_only_tank_temp", avail |-> "not_off", gate |-> "backup_only_tank_temp"] >>

SelectSetup ==
    << [key |-> "hvac_mode", cls |-> "HvacModePrioritySelect"] >>

SelectClasses ==
    << [cls |-> "HvacModePrioritySelect", read_key |-> "hvac_mode", avail |-> "key", gate |-> "hvac_mode"] >>

\* SENSOR_DESCRIPTIONS and BINARY_SENSOR_DESCRIPTIONS: the description keys
SensorDescriptions == <<"temperature_tank", "temperature_outdoor", "firmware_version", "device_type">>
BinarySensorDescriptions == <<"permanent_heat_demand", "permanent_cool_demand">>

Range(seq) == {seq[i] : i \in 1..Len(seq)}

Entity(platform, cls, device_id, key, title) ==
    [platform |-> platform, cls |-> cls, device_id |-> device_id, key |-> key, title |-> title]

\* `if coordinator.data and "devices" in coordinator.data`, then devices.items()
SnapshotDevices(d) ==
    IF Truthy(d) /\ "devices" \in DOMAIN d.v THEN d.v.devices ELSE EmptyMap

AllClasses == Range(SwitchClasses) \cup Range(NumberClasses) \cup Range(SelectClasses)

\* the class's row: the key its value is read from (is_on, native_value,
\* current_option) and its availability rule
ClassRow(cls) == CHOOSE row \in AllClasses : row.cls = cls

\* variant: every class of the table is created, whatever the parameters hold
CreatedRegardless(platform, setup, device_id, parameters) ==
    {Entity(platform, row.cls, device_id, ClassRow(row.cls).read_key, NoValue) :
        row \in Range(setup)}

\* the entities one platform's table creates for one device of a snapshot:
\* `if "<key>" in device_parameters: entities.append(<cls>(...))`
CreatedByKey(platform, setup, device_id, parameters) ==
    {Entity(platform, row.cls, device_id, ClassRow(row.cls).read_key, NoValue) :
        row \in {r \in Range(setup) : r.key \in DOMAIN parameters}}

\* device_parameters = device.get("parameters", {})
DeviceParameters(d, device_id) == SnapshotDevices(d)[device_id].parameters

SwitchSetupEntry(d) ==
    UNION {CreatedByKey("switch", SwitchSetup, device_id, DeviceParameters(d, device_id)) :
              device_id \in DOMAIN SnapshotDevices(d)}

NumberSetupEntry(d) ==
    UNION {CreatedByKey("number", NumberSetup, device_id, DeviceParameters(d, device_id)) :
              device_id \in DOMAIN SnapshotDevices(d)}

SelectSetupEntry(d) ==
    UNION {CreatedByKey("select", SelectSetup, device_id, DeviceParameters(d, device_id)) :
              device_id \in DOMAIN SnapshotDevices(d)}

\* stage.get("title", "Stage") for stage in device_parameters.get("heatpump_stages", [])
StageTitles(parameters) ==
    LET stages == IF "heatpump_stages" \in DOMAIN parameters
                  THEN parameters["heatpump_stages"].v ELSE <<>>
    IN  {IF "title" \in DOMAIN st THEN st.title ELSE "Stage" : st \in Range(stages)}

\* backup_state, and `if backup_state:` with backup_state.get("title", "Backup")
BackupTitles(parameters) ==
    LET backup_state == Get(parameters, "backup_state")
    IN  IF Truthy(backup_state)
        THEN {IF "title" \in DOMAIN backup_state.v THEN backup_state.v.title ELSE "Backup"}
        ELSE {}

SensorsOf(device_id, parameters) ==
    {Entity("sensor", "SensorLinxSensor", device_id, k, NoValue) :
        k \in {x \in Range(SensorDescriptions) : x \in DOMAIN parameters}}
    \cup {Entity("sensor", "HeatPumpStageRuntimeSensor", device_id, NoValue, t) :
            t \in StageTitles(parameters)}
    \cup {Entity("sensor", "BackupRuntimeSensor", device_id, NoValue, t) :
            t \in BackupTitles(parameters)}

SensorSetupEntry(d) ==
    UNION {SensorsOf(device_id, DeviceParameters(d, device_id)) :
              device_id \in DOMAIN SnapshotDevices(d)}

BinarySensorsOf(device_id, parameters) ==
    {Entity("binary_sensor", "SensorLinxBinarySensor", device_id, k, NoValue) :
        k \in {x \in Range(BinarySensorDescriptions) : x \in DOMAIN parameters}}
    \cup {Entity("binary_sensor", "HeatPumpStageBinarySensor", device_id, data_key, t) :
            t \in StageTitles(parameters), data_key \in {"activated", "enabled"}}
    \cup {Entity("binary_sensor", "BackupBinarySensor", device_id, data_key, t) :
            t \in BackupTitles(parameters), data_key \in {"activated", "enabled"}}

BinarySensorSetupEntry(d) ==
    UNION {BinarySensorsOf(device_id, DeviceParameters(d, device_id)) :
              device_id \in DOMAIN SnapshotDevices(d)}

Platforms == {"switch", "number", "select", "sensor", "binary_sensor"}

PlatformSetupEntry(platform, d) ==
    CASE platform = "switch" -> SwitchSetupEntry(d)
      [] platform = "number" -> NumberSetupEntry(d)
      [] platform = "select" -> SelectSetupEntry(d)
      [] platform = "sensor" -> SensorSetupEntry(d)
      [] OTHER -> BinarySensorSetupEntry(d)

\* async_setup_entry of one platform: it runs once per config entry
SetupEntry(platform) ==
    /\ platform \notin platforms_done
    /\ entities' = entities \cup PlatformSetupEntry(platform, data)
    /\ platforms_done' = platforms_done \cup {platform}
    /\ UNCHANGED <<data, last_update_success, last_exception, last_resp, config>>

\* the config entry's setup forwards to every platform once the first
\* refresh has returned a snapshot
ForwardEntrySetups ==
    /\ platforms_done = {}
    /\ data # None
    /\ last_update_success
    /\ entities' = UNION {PlatformSetupEntry(p, data) : p \in Platforms}
    /\ platforms_done' = Platforms
    /\ UNCHANGED <<data, last_update_success, last_exception, last_resp, config>>

-----------------------------------------------------------------------------
(* Availability of an entity against the coordinator's current state.      *)

\* variant: the device id is not looked up in the devices map
CoordinatorHasData(d, success, device_id) ==
    /\ success
    /\ d # None
    /\ "devices" \in DOMAIN d.v

\* variant: the snapshot alone decides, whatever the last update did
CoordinatorHoldsDevice(d, success, device_id) ==
    /\ d # None
    /\ "devices" \in DOMAIN d.v
    /\ device_id \in DOMAIN d.v.devices

\* coordinator.last_update_success and coordinator.data is not None and
\* "devices" in coordinator.data and self._device_id in coordinator.data["devices"]
CoordinatorHasDevice(d, success, device_id) ==
    /\ success
    /\ d # None
    /\ "devices" \in DOMAIN d.v
    /\ device_id \in DOMAIN d.v.devices

\* coordinator.data["devices"].get(device_id) ... device.get("parameters", {})
ParametersOf(d, device_id) ==
    IF d # None /\ "devices" \in DOMAIN d.v /\ device_id \in DOMAIN d.v.devices
    THEN d.v.devices[device_id].parameters
    ELSE EmptyMap

\* variant: the outdoor reset is not looked at
IsAnything(x) == TRUE

\* outdoor_reset == "off" or outdoor_reset is None
IsOffOrNone(x) == x = OFF \/ x = None

\* value != "off" and value is not None
NotOffNotNone(x) == x # OFF /\ x # None

\* variant: the number of stages is not looked at
AnyStages(x) == TRUE

\* num_stages is None, or num_stages in (2, 4)
EvenStages(x) == x = None \/ x \in {Num(2), Num(4)}

\* variant: the stages are not looked at
StageNotLookedAt(parameters, title) == TRUE

\* any(stage.get("title") == self._stage_title for stage in heatpump_stages)
StageListed(parameters, title) ==
    /\ "heatpump_stages" \in DOMAIN parameters
    /\ \E st \in Range(parameters["heatpump_stages"].v) : "title" \in DOMAIN st /\ st.title = title

\* variant: no class has a rule of its own
ClassAlwaysAvailable(e, parameters) == TRUE

\* the rule of the class on top of the coordinator having the device
ClassAvailable(e, parameters) ==
    CASE e.cls \in {"SensorLinxSensor", "SensorLinxBinarySensor"} -> TRUE
      [] e.cls \in {"HeatPumpStageRuntimeSensor", "HeatPumpStageBinarySensor"} ->
            StageListed(parameters, e.title)
      [] e.cls \in {"BackupRuntimeSensor", "BackupBinarySensor"} ->
            Get(parameters, "backup_state") # None
      [] OTHER ->
            LET row == ClassRow(e.cls)
            IN  CASE row.avail = "device" -> TRUE
                  [] row.avail = "key" -> row.gate \in DOMAIN parameters
                  [] row.avail = "not_off" -> NotOffNotNone(Get(parameters, row.gate))
                  [] row.avail = "off_or_none" -> IsOffOrNone(Get(parameters, row.gate))
                  [] OTHER -> /\ row.gate \in DOMAIN parameters
                              /\ EvenStages(Get(parameters, "number_of_stages"))

\* the entity's `available` property
Available(e, d, success) ==
    /\ CoordinatorHasDevice(d, success, e.device_id)
    /\ ClassAvailable(e, ParametersOf(d, e.device_id))

-----------------------------------------------------------------------------
(* The state an entity reports: is_on, native_value, current_option.       *)

(* How each class turns its parameter into its state:                      *)
(*   "plain"        parameters.get(key)                                    *)
(*   "not_off"      value != "off" and value is not None                   *)
(*   "bool"         bool(parameters.get(key, False))                       *)
(*   "bool_or_none" bool(value) if value is not None else None             *)
(*   "temperature"  value.value of a Temperature, else value               *)
(*   "off_temperature", "off_value", "off_delta": None for "off", else as  *)
(*                  "temperature", "plain" and "delta"                     *)
(*   "delta"        a TemperatureDelta in the unit of the installation     *)
(*   "int_or_1", "int_or_0", "int"  int(value), and 1, 0 or None for None  *)
(*   "stage_runtime", "stage_binary", "backup_runtime", "backup_binary"    *)
ReadShape(cls) ==
    CASE cls \in {"HotTankOutdoorResetSwitch", "ColdTankOutdoorResetSwitch",
                  "WarmWeatherShutdownSwitch", "ColdWeatherShutdownSwitch",
                  "RotateCyclesSwitch", "RotateTimeSwitch", "BackupLagTimeSwitch",
                  "BackupDifferentialSwitch", "BackupOnlyOutdoorTempSwitch",
                  "BackupTempSwitch", "BackupOnlyTankTempSwitch"} -> "not_off"
      [] cls \in {"PermanentHeatDemandSwitch", "PermanentCoolDemandSwitch",
                  "SynchronizedStageOffSwitch"} -> "bool"
      [] cls \in {"WidePriorityDifferentialSwitch", "TwoStageHeatPumpSwitch",
                  "SensorLinxBinarySensor"} -> "bool_or_none"
      [] cls \in {"HotTankMinTemperature", "HotTankMaxTemperature",
                  "ColdTankTargetTemperature", "ColdTankMinTemperature",
                  "ColdTankMaxTemperature"} -> "temperature"
      [] cls \in {"HotTankOutdoorReset", "ColdTankOutdoorReset", "WarmWeatherShutdown",
                  "ColdWeatherShutdown", "BackupOnlyOutdoorTemp", "BackupTemp",
                  "BackupOnlyTankTemp"} -> "off_temperature"
      [] cls \in {"RotateCycles", "RotateTime", "BackupLagTime"} -> "off_value"
      [] cls = "BackupDifferential" -> "off_delta"
      [] cls \in {"HotTankDifferential", "ColdTankDifferential"} -> "delta"
      [] cls = "NumberOfStages" -> "int_or_1"
      [] cls = "WeatherShutdownLagTime" -> "int_or_0"
      [] cls = "HeatCoolSwitchDelay" -> "int"
      [] cls = "HeatPumpStageRuntimeSensor" -> "stage_runtime"
      [] cls = "HeatPumpStageBinarySensor" -> "stage_binary"
      [] cls = "BackupRuntimeSensor" -> "backup_runtime"
      [] cls = "BackupBinarySensor" -> "backup_binary"
      [] OTHER -> "plain"

\* int(value): the number itself for a whole number, ValueError for "off"
IntValue(value) == IF value.t = "num" THEN value ELSE [t |-> "raise", exc |-> "ValueError"]

\* value.value of a Temperature
TemperatureValue(value) == IF value.t = "temperature" THEN Num(value.v) ELSE value

\* round(value.to_celsius() * 2) / 2, or value.to_fahrenheit(), of a
\* TemperatureDelta: the vendor's conversion, kept as what was converted, into
\* which unit, and whether it was rounded to a half
DeltaValue(value, unit) ==
    IF value.t = "temperature_delta"
    THEN [t |-> "converted", v |-> value.v, from |-> value.unit, to |-> unit,
          to_half |-> (unit = "C")]
    ELSE value

\* the first stage of the list with the title: `for stage in heatpump_stages:
\* if stage.get("title") == self._stage_title`
StageByTitle(parameters, title) ==
    LET stages == IF "heatpump_stages" \in DOMAIN parameters
                  THEN parameters["heatpump_stages"].v ELSE <<>>
        hits == {i \in 1..Len(stages) : "title" \in DOMAIN stages[i] /\ stages[i].title = title}
    IN  IF hits = {} THEN <<>>
        ELSE <<stages[CHOOSE i \in hits : \A j \in hits : i <= j]>>

\* stage.get(key) / backup_state.get(key) as a value
Field(rec, key) ==
    IF key \notin DOMAIN rec THEN None
    ELSE IF key \in {"activated", "enabled"} THEN Bool(rec[key]) ELSE Str(rec[key])

\* bool(value) if value is not None else None
BoolOrNone(value) == IF value = None THEN None ELSE Bool(Truthy(value))

\* the part of the state read that follows the guards
ReadParameters(e, parameters, unit) ==
    LET value == Get(parameters, e.key)
        shape == ReadShape(e.cls)
        stage == StageByTitle(parameters, e.title)
        backup_state == Get(parameters, "backup_state")
    IN  CASE shape = "not_off" -> Bool(value # OFF /\ value # None)
          [] shape = "bool" -> Bool(Truthy(value))
          [] shape = "bool_or_none" -> BoolOrNone(value)
          [] shape = "temperature" -> TemperatureValue(value)
          [] shape = "off_temperature" -> IF value = OFF THEN None ELSE TemperatureValue(value)
          [] shape = "off_value" -> IF value = OFF THEN None ELSE value
          [] shape = "off_delta" -> IF value = OFF THEN None ELSE DeltaValue(value, unit)
          [] shape = "delta" -> DeltaValue(value, unit)
          [] shape = "int_or_1" -> IF value = None THEN Num(1) ELSE IntValue(value)
          [] shape = "int_or_0" -> IF value = None THEN Num(0) ELSE IntValue(value)
          [] shape = "int" -> IF value = None THEN None ELSE IntValue(value)
          [] shape = "stage_runtime" ->
                IF stage = <<>> THEN None ELSE Field(stage[1], "runTime")
          [] shape = "stage_binary" ->
                IF stage = <<>> THEN None ELSE BoolOrNone(Field(stage[1], e.key))
          [] shape = "backup_runtime" ->
                IF ~Truthy(backup_state) THEN None ELSE Field(backup_state.v, "runTime")
          [] shape = "backup_binary" ->
                IF ~Truthy(backup_state) THEN None
                ELSE BoolOrNone(Field(backup_state.v, e.key))
          [] OTHER -> value

\* variant: the parameters are read without looking whether the device is there
StateReadUnguarded(e, d, unit) == ReadParameters(e, ParametersOf(d, e.device_id), unit)

\* is_on / native_value / current_option:
\* `if not coordinator.data or "devices" not in coordinator.data: return None`,
\* `device = ...get(self._device_id)`, `if not device: return None`
StateRead(e, d, unit) ==
    IF ~Truthy(d) \/ "devices" \notin DOMAIN d.v THEN None
    ELSE IF e.device_id \notin DOMAIN d.v.devices THEN None
    ELSE ReadParameters(e, d.v.devices[e.device_id].parameters, unit)

-----------------------------------------------------------------------------
(* The specifications.                                                     *)

\* one refresh against every answer of the vendor
PollNext == FirstRefresh
PollSpec == Init /\ [][PollNext]_vars

\* the life of a config entry: refreshes, and the platforms set up once
Next == Poll \/ ForwardEntrySetups
Spec == Init /\ [][Next]_vars

-----------------------------------------------------------------------------
(* Platform setup against the snapshots of the test suite: one device with *)
(* the full parameter map of make_full_parameters, or that map with a few  *)
(* parameters left out or holding another value; or no data at all.        *)

MOCK_DEVICE_ID == "ABC123"
MOCK_BUILDING_ID == "building_1"

FullParameters ==
    [temperature_tank |-> Num(120), target_temperature_tank |-> Num(125),
     temperature_outdoor |-> Num(35),
     hot_tank_min_temp |-> Num(100), hot_tank_max_temp |-> Num(140),
     hot_tank_outdoor_reset |-> OFF,
     cold_tank_min_temp |-> Num(40), cold_tank_max_temp |-> Num(55),
     cold_tank_outdoor_reset |-> OFF,
     hvac_mode |-> Str("heat"),
     permanent_heat_demand |-> Bool(FALSE), permanent_cool_demand |-> Bool(FALSE),
     warm_weather_shutdown |-> OFF, cold_weather_shutdown |-> OFF,
     firmware_version |-> Str("1.2.3"), device_type |-> Str("ECO"),
     heatpump_stages |-> List(<<Stage1, Stage2>>), backup_state |-> BackupDict,
     stage_on_lag_time |-> Num(10), stage_off_lag_time |-> Num(30),
     rotate_cycles |-> OFF, rotate_time |-> OFF, off_staging |-> Bool(FALSE),
     backup_lag_time |-> OFF, backup_differential |-> OFF,
     hot_tank_differential |-> Num(4), cold_tank_differential |-> Num(4),
     backup_only_outdoor_temp |-> OFF, number_of_stages |-> Num(2),
     backup_temp |-> OFF, wide_priority_differential |-> OFF,
     weather_shutdown_lag_time |-> Num(0), two_stage_heat_pump |-> Bool(FALSE),
     heat_cool_switch_delay |-> Num(60), backup_only_tank_temp |-> OFF]

\* what a test changes in the map: a key left out, or another value passed
ParameterChanges ==
    {[op |-> "omit", key |-> k] : k \in DOMAIN FullParameters}
    \cup {[op |-> "set", key |-> "backup_state", v |-> v] : v \in {None, Dict(EmptyMap)}}
    \cup {[op |-> "set", key |-> "heatpump_stages", v |-> v] :
            v \in {List(<<>>), List(<<Stage1>>)}}
    \cup {[op |-> "set", key |-> "hot_tank_outdoor_reset", v |-> Num(0)]}
    \cup {[op |-> "set", key |-> "number_of_stages", v |-> Num(3)]}
    \cup {[op |-> "set", key |-> "backup_lag_time", v |-> Num(15)]}

WithChange(parameters, c) ==
    IF c.op = "omit"
    THEN [k \in DOMAIN parameters \ {c.key} |-> parameters[k]]
    ELSE IF c.key \in DOMAIN parameters THEN [parameters EXCEPT ![c.key] = c.v] ELSE parameters

MaxChanges == 1

RECURSIVE ParametersWith(_)
ParametersWith(n) ==
    IF n = 0 THEN {FullParameters}
    ELSE LET P == ParametersWith(n - 1)
         IN  P \cup {WithChange(q, c) : q \in P, c \in ParameterChanges}

\* make_device and make_coordinator_data
MakeDevice(parameters) ==
    [id |-> MOCK_DEVICE_ID, syncCode |-> MOCK_DEVICE_ID, name |-> "Test ECO",
     parameters |-> parameters, building_id |-> MOCK_BUILDING_ID]

MakeCoordinatorData(parameters) ==
    Dict([profile |-> Dict([username |-> "test@example.com"]),
          buildings |-> <<[id |-> MOCK_BUILDING_ID, name |-> "Test Building"]>>,
          devices |-> (MOCK_DEVICE_ID :> MakeDevice(parameters))])

\* mock_coordinator with one of the parameter maps, or mock_coordinator_no_data
SetupInit ==
    /\ data \in {None} \cup {MakeCoordinatorData(q) : q \in ParametersWith(MaxChanges)}
    /\ last_update_success = (data # None)
    /\ last_exception = "none"
    /\ last_resp = NoResponse
    /\ entities = {}
    /\ platforms_done = {}
    /\ entry_scan_interval = Num(DEFAULT_SCAN_INTERVAL)
    /\ update_interval = UpdateInterval(entry_scan_interval)
    /\ last_write = NoWrite
    /\ hot_tank = IdleTank

SetupNext == \E platform \in Platforms : SetupEntry(platform)
SetupSpec == SetupInit /\ [][SetupNext]_vars

-----------------------------------------------------------------------------
(* Entity writes: switch turn_on / turn_off, number set_native_value and    *)
(* select select_option, against the platforms set up from a snapshot.     *)
(* A written number is a float, kept in tenths: 1205 is 120.5.             *)

\* whole degrees, in tenths
Deg(n) == 10 * n

\* TemperatureDelta(value, unit)
TemperatureDelta(n, unit) == [t |-> "temperature_delta", v |-> n, unit |-> unit]

\* int(value): truncation towards zero
IntOf(value) == IF value >= 0 THEN value \div 10 ELSE -((-value) \div 10)

(* One row per write method: the vendor setters it awaits, in order, and   *)
(* the argument it passes them: "const" = the constant of the row,         *)
(* "temperature" = Temperature(value, "F"), "int" = int(value), "delta" =  *)
(* TemperatureDelta(value, <unit of the installation>), "option" = the     *)
(* option. Every method ends with coordinator.async_request_refresh().     *)

SwitchWrites ==
    << [cls |-> "HotTankOutdoorResetSwitch", method |-> "async_turn_on", setters |-> <<"set_hot_tank_outdoor_reset">>, arg |-> "const", const |-> Temperature(Deg(0))],
       [cls |-> "HotTankOutdoorResetSwitch", method |-> "async_turn_off", setters |-> <<"set_hot_tank_outdoor_reset">>, arg |-> "const", const |-> OFF],
       [cls |-> "PermanentHeatDemandSwitch", method |-> "async_turn_on", setters |-> <<"set_permanent_hd">>, arg |-> "const", const |-> Bool(TRUE)],
       [cls |-> "PermanentHeatDemandSwitch", method |-> "async_turn_off", setters |-> <<"set_permanent_hd">>, arg |-> "const", const |-> Bool(FALSE)],
       [cls |-> "PermanentCoolDemandSwitch", method |-> "async_turn_on", setters |-> <<"set_permanent_cd">>, arg |-> "const", const |-> Bool(TRUE)],
       [cls |-> "PermanentCoolDemandSwitch", method |-> "async_turn_off", setters |-> <<"set_permanent_cd">>, arg |-> "const", const |-> Bool(FALSE)],
       [cls |-> "ColdTankOutdoorResetSwitch", method |-> "async_turn_on", setters |-> <<"set_cold_tank_outdoor_reset">>, arg |-> "const", const |-> Temperature(Deg(0))],
       [cls |-> "ColdTankOutdoorResetSwitch", method |-> "async_turn_off", setters |-> <<"set_cold_tank_outdoor_reset">>, arg |-> "const", const |-> OFF],
       [cls |-> "WarmWeatherShutdownSwitch", method |-> "async_turn_on", setters |-> <<"set_warm_weather_shutdown">>, arg |-> "const", const |-> Temperature(Deg(88))],
       [cls |-> "WarmWeatherShutdownSwitch", method |-> "async_turn_off", setters |-> <<"set_warm_weather_shutdown">>, arg |-> "const", const |-> OFF],
       [cls |-> "ColdWeatherShutdownSwitch", method |-> "async_turn_on", setters |-> <<"set_cold_weather_shutdown">>, arg |-> "const", const |-> Temperature(Deg(41))],
       [cls |-> "ColdWeatherShutdownSwitch", method |-> "async_turn_off", setters |-> <<"set_cold_weather_shutdown">>, arg |-> "const", const |-> OFF],
       [cls |-> "RotateCyclesSwitch", method |-> "async_turn_on", setters |-> <<"set_rotate_cycles">>, arg |-> "const", const |-> Num(1)],
       [cls |-> "RotateCyclesSwitch", method |-> "async_turn_off", setters |-> <<"set_rotate_cycles">>, arg |-> "const", const |-> OFF],
       [cls |-> "RotateTimeSwitch", method |-> "async_turn_on", setters |-> <<"set_rotate_time">>, arg |-> "const", const |-> Num(1)],
       [cls |-> "RotateTimeSwitch", method |-> "async_turn_off", setters |-> <<"set_rotate_time">>, arg |-> "const", const |-> OFF],
       [cls |-> "SynchronizedStageOffSwitch", method |-> "async_turn_on", setters |-> <<"set_off_staging">>, arg |-> "const", const |-> Bool(TRUE)],
       [cls |-> "SynchronizedStageOffSwitch", method |-> "async_turn_off", setters |-> <<"set_off_staging">>, arg |-> "const", const |-> Bool(FALSE)],
       [cls |-> "BackupLagTimeSwitch", method |-> "async_turn_on", setters |-> <<"set_backup_lag_time">>, arg |-> "const", const |-> Num(10)],
       [cls |-> "BackupLagTimeSwitch", method |-> "async_turn_off", setters |-> <<"set_backup_lag_time">>, arg |-> "const", const |-> OFF],
       [cls |-> "BackupDifferentialSwitch", method |-> "async_turn_on", setters |-> <<"set_backup_differential">>, arg |-> "const", const |-> Temperature(Deg(10))],
       [cls |-> "BackupDifferentialSwitch", method |-> "async_turn_off", setters |-> <<"set_backup_differential">>, arg |-> "const", const |-> OFF],
       [cls |-> "BackupOnlyOutdoorTempSwitch", method |-> "async_turn_on", setters |-> <<"set_backup_only_outdoor_temp">>, arg |-> "const", const |-> Temperature(Deg(-13))],
       [cls |-> "BackupOnlyOutdoorTempSwitch", method |-> "async_turn_off", setters |-> <<"set_backup_only_outdoor_temp">>, arg |-> "const", const |-> OFF],
       [cls |-> "BackupTempSwitch", method |-> "async_turn_on", setters |-> <<"set_backup_temp">>, arg |-> "const", const |-> Temperature(Deg(50))],
       [cls |-> "BackupTempSwitch", method |-> "async_turn_off", setters |-> <<"set_backup_temp">>, arg |-> "const", const |-> OFF],
       [cls |-> "WidePriorityDifferentialSwitch", method |-> "async_turn_on", setters |-> <<"set_wide_priority_differential">>, arg |-> "const", const |-> Bool(TRUE)],
       [cls |-> "WidePriorityDifferentialSwitch", method |-> "async_turn_off", setters |-> <<"set_wide_priority_differential">>, arg |-> "const", const |-> Bool(FALSE)],
       [cls |-> "TwoStageHeatPumpSwitch", method |-> "async_turn_on", setters |-> <<"set_two_stage_heat_pump">>, arg |-> "const", const |-> Bool(TRUE)],
       [cls |-> "TwoStageHeatPumpSwitch", method |-> "async_turn_off", setters |-> <<"set_two_stage_heat_pump">>, arg |-> "const", const |-> Bool(FALSE)],
       [cls |-> "BackupOnlyTankTempSwitch", method |-> "async_turn_on", setters |-> <<"set_backup_only_tank_temp">>, arg |-> "const", const |-> Temperature(Deg(120))],
       [cls |-> "BackupOnlyTankTempSwitch", method |-> "async_turn_off", setters |-> <<"set_backup_only_tank_temp">>, arg |-> "const", const |-> OFF] >>

NumberWrites ==
    << [cls |-> "HotTankTargetTemperature", method |-> "async_set_native_value", setters |-> <<"set_hot_tank_min_temp", "set_hot_tank_max_temp">>, arg |-> "temperature", const |-> None],
       [cls |-> "HotTankMinTemperature", method |-> "async_set_native_value", setters |-> <<"set_hot_tank_min_temp">>, arg |-> "temperature", const |-> None],
       [cls |-> "HotTankMaxTemperature", method |-> "async_set_native_value", setters |-> <<"set_hot_tank_max_temp">>, arg |-> "temperature", const |-> None],
       [cls |-> "HotTankOutdoorReset", method |-> "async_set_native_value", setters |-> <<"set_hot_tank_outdoor_reset">>, arg |-> "temperature", const |-> None],
       [cls |-> "ColdTankTargetTemperature", method |-> "async_set_native_value", setters |-> <<"set_cold_tank_min_temp", "set_cold_tank_max_temp">>, arg |-> "temperature", const |-> None],
       [cls |-> "ColdTankMinTemperature", method |-> "async_set_native_value", setters |-> <<"set_cold_tank_min_temp">>, arg |-> "temperature", const |-> None],
       [cls |-> "ColdTankMaxTemperature", method |-> "async_set_native_value", setters |-> <<"set_cold_tank_max_temp">>, arg |-> "temperature", const |-> None],
       [cls |-> "ColdTankOutdoorReset", method |-> "async_set_native_value", setters |-> <<"set_cold_tank_outdoor_reset">>, arg |-> "temperature", const |-> None],
       [cls |-> "WarmWeatherShutdown", method |-> "async_set_native_value", setters |-> <<"set_warm_weather_shutdown">>, arg |-> "temperature", const |-> None],
       [cls |-> "ColdWeatherShutdown", method |-> "async_set_native_value", setters |-> <<"set_cold_weather_shutdown">>, arg |-> "temperature", const |-> None],
       [cls |-> "StageOnLagTime", method |-> "async_set_native_value", setters |-> <<"set_stage_on_lag_time">>, arg |-> "int", const |-> None],
       [cls |-> "StageOffLagTime", method |-> "async_set_native_value", setters |-> <<"set_stage_off_lag_time">>, arg |-> "int", const |-> None],
       [cls |-> "RotateCycles", method |-> "async_set_native_value", setters |-> <<"set_rotate_cycles">>, arg |-> "int", const |-> None],
       [cls |-> "RotateTime", method |-> "async_set_native_value", setters |-> <<"set_rotate_time">>, arg |-> "int", const |-> None],
       [cls |-> "BackupLagTime", method |-> "async_set_native_value", setters |-> <<"set_backup_lag_time">>, arg |-> "int", const |-> None],
       [cls |-> "BackupDifferential", method |-> "async_set_native_value", setters |-> <<"set_backup_differential">>, arg |-> "delta", const |-> None],
       [cls |-> "HotTankDifferential", method |-> "async_set_native_value", setters |-> <<"set_hot_tank_differential">>, arg |-> "delta", const |-> None],
       [cls |-> "ColdTankDifferential", method |-> "async_set_native_value", setters |-> <<"set_cold_tank_differential">>, arg |-> "delta", const |-> None],
       [cls |-> "BackupOnlyOutdoorTemp", method |-> "async_set_native_value", setters |-> <<"set_backup_only_outdoor_temp">>, arg |-> "temperature", const |-> None],
       [cls |-> "NumberOfStages", method |-> "async_set_native_value", setters |-> <<"set_number_of_stages">>, arg |-> "int", const |-> None],
       [cls |-> "BackupTemp", method |-> "async_set_native_value", setters |-> <<"set_backup_temp">>, arg |-> "temperature", const |-> None],
       [cls |-> "WeatherShutdownLagTime", method |-> "async_set_native_value", setters |-> <<"set_weather_shutdown_lag_time">>, arg |-> "int", const |-> None],
       [cls |-> "HeatCoolSwitchDelay", method |-> "async_set_native_value", setters |-> <<"set_heat_cool_switch_delay">>, arg |-> "int", const |-> None],
       [cls |-> "BackupOnlyTankTemp", method |-> "async_set_native_value", setters |-> <<"set_backup_only_tank_temp">>, arg |-> "temperature", const |-> None] >>

SelectWrites ==
    << [cls |-> "HvacModePrioritySelect", method |-> "async_select_option", setters |-> <<"set_hvac_mode_priority">>, arg |-> "option", const |-> None] >>

AllWrites == Range(SwitchWrites) \cup Range(NumberWrites) \cup Range(SelectWrites)

WriteRow(cls, method) == CHOOSE row \in AllWrites : row.cls = cls /\ row.method = method

WriteMethods(cls) == {row.method : row \in {r \in AllWrites : r.cls = cls}}

\* _attr_options of the select
HvacModeOptions == {"heat", "cool", "auto"}

\* the floats a number is set to, in tenths
WrittenNumbers == {Deg(-13), 5, Deg(1), 15, 1205}

\* the value the service call carries: none for a switch
WriteValues(row) ==
    CASE row.arg = "const" -> {None}
      [] row.arg = "option" -> {Str(o) : o \in HvacModeOptions}
      [] OTHER -> {Num(n) : n \in WrittenNumbers}

\* hass.config.units.temperature_unit
TemperatureUnits == {"C", "F"}

WriteArg(row, value, unit) ==
    CASE row.arg = "const" -> row.const
      [] row.arg = "temperature" -> Temperature(value.v)
      [] row.arg = "int" -> Num(IntOf(value.v))
      [] row.arg = "delta" -> TemperatureDelta(value.v, unit)
      [] OTHER -> value

\* building_id = device.get("building_id"), given to the entity at setup
BuildingIdOf(d, device_id) == SnapshotDevices(d)[device_id].building_id

\* await device_helper.<setter>(<arg>) on
\* SensorlinxDevice(coordinator.sensorlinx, self._building_id, self._device_id)
SetterCall(e, d, setter, arg) ==
    [op |-> "set", setter |-> setter, building_id |-> BuildingIdOf(d, e.device_id),
     device_id |-> e.device_id, arg |-> arg]

RefreshCall == [op |-> "refresh"]

\* variant: the refresh is requested before the setters are awaited
WriteCallsRefreshFirst(e, d, row, arg, raises) ==
    <<RefreshCall>> \o [i \in 1..Len(row.setters) |-> SetterCall(e, d, row.setters[i], arg)]

\* variant: the second setter of a two-setter write gets another value
WriteCallsSecondDiffers(e, d, row, arg, raises) ==
    [i \in 1..Len(row.setters) |->
        SetterCall(e, d, row.setters[i], IF i = 1 THEN arg ELSE None)]
    \o <<RefreshCall>>

\* a write method that requested its refresh in a `finally`
WriteCallsRefreshInFinally(e, d, row, arg, raises) ==
    LET calls == [i \in 1..Len(row.setters) |-> SetterCall(e, d, row.setters[i], arg)]
    IN  SubSeq(calls, 1, IF raises = 0 THEN Len(calls) ELSE raises) \o <<RefreshCall>>

\* the calls one write method makes, in order; `raises` is the setter that
\* raises (0: none does), after which the method is left
WriteCalls(e, d, row, arg, raises) ==
    LET calls == [i \in 1..Len(row.setters) |-> SetterCall(e, d, row.setters[i], arg)]
    IN  IF raises = 0 THEN calls \o <<RefreshCall>> ELSE SubSeq(calls, 1, raises)

WritablePlatforms == {"switch", "number", "select"}

\* async_turn_on, async_turn_off, async_set_native_value, async_select_option
Write ==
    \E e \in {x \in entities : x.platform \in WritablePlatforms} :
    \E method \in WriteMethods(e.cls) :
        LET row == WriteRow(e.cls, method)
        IN  \E value \in WriteValues(row), unit \in TemperatureUnits,
               raises \in 0..Len(row.setters) :
                /\ last_write' = [cls |-> e.cls, entity |-> e, method |-> method,
                                  value |-> value, raises |-> raises, before |-> data,
                                  outcome |-> IF raises = 0 THEN Ret(None)
                                              ELSE Raise("VendorError"),
                                  calls |-> WriteCalls(e, data, row,
                                                       WriteArg(row, value, unit), raises)]
                /\ UNCHANGED <<data, last_update_success, last_exception, last_resp,
                               entities, platforms_done, entry_scan_interval,
                               update_interval, hot_tank>>

\* the snapshots the writes start from: the one of the test suite, and the one
\* a poll builds when every vendor call answers
WriteSnapshots == {MakeCoordinatorData(FullParameters), AsyncUpdateData(None, NominalResponse).v}

\* the coordinator has data and the three platforms have been set up from it
WriteInit ==
    /\ data \in WriteSnapshots
    /\ last_update_success = TRUE
    /\ last_exception = "none"
    /\ last_resp = NoResponse
    /\ entities = UNION {PlatformSetupEntry(p, data) : p \in WritablePlatforms}
    /\ platforms_done = WritablePlatforms
    /\ entry_scan_interval = Num(DEFAULT_SCAN_INTERVAL)
    /\ update_interval = UpdateInterval(entry_scan_interval)
    /\ last_write = NoWrite
    /\ hot_tank = IdleTank

WriteNext == Write
WriteSpec == WriteInit /\ [][WriteNext]_vars

-----------------------------------------------------------------------------
(* The coordinator built from a config entry holding any scan interval.    *)

MaxScanSteps == 125

\* what entry.data may hold under "scan_interval": nothing, or a number of seconds
ConfiguredIntervals == {None} \cup {Num(30 * k) : k \in 0..MaxScanSteps}

\* HBXControlsDataUpdateCoordinator.__init__
IntervalInit ==
    /\ data = None
    /\ last_update_success = TRUE
    /\ last_exception = "none"
    /\ last_resp = NoResponse
    /\ entities = {}
    /\ platforms_done = {}
    /\ entry_scan_interval \in ConfiguredIntervals
    /\ update_interval = UpdateInterval(entry_scan_interval)
    /\ last_write = NoWrite
    /\ hot_tank = IdleTank

IntervalNext == ScheduledRefresh
IntervalSpec == IntervalInit /\ [][IntervalNext]_vars

-----------------------------------------------------------------------------
(* HotTankTargetTemperature.async_set_native_value, one step per await:   *)
(* service calls are tasks of one event loop, and a task gives way to the  *)
(* others at each await. No lock is held across the awaits.                *)

\* the coordinator and the entities, left alone by the setter calls
Integration == <<data, last_update_success, last_exception, last_resp, entities,
                 platforms_done, entry_scan_interval, update_interval, last_write>>

\* temp = Temperature(value, "F"); await device_helper.set_hot_tank_min_temp(temp):
\* the setter returns, or raises and the method is left
SetMin(w) ==
    /\ hot_tank.at[w] = "idle"
    /\ \E value \in TargetValues, returns \in BOOLEAN :
        hot_tank' = IF returns
                    THEN [hot_tank EXCEPT !.min = value, !.at[w] = "min_set",
                                          !.temp[w] = value]
                    ELSE hot_tank
    /\ UNCHANGED Integration

\* await device_helper.set_hot_tank_max_temp(temp)
SetMax(w) ==
    /\ hot_tank.at[w] = "min_set"
    /\ \E returns \in BOOLEAN :
        hot_tank' = IF returns
                    THEN [hot_tank EXCEPT !.max = hot_tank.temp[w], !.at[w] = "max_set"]
                    ELSE [hot_tank EXCEPT !.at[w] = "idle"]
    /\ UNCHANGED Integration

\* await self.coordinator.async_request_refresh(), and the method returns
RequestRefresh(w) ==
    /\ hot_tank.at[w] = "max_set"
    /\ hot_tank' = [hot_tank EXCEPT !.at[w] = "idle"]
    /\ UNCHANGED Integration

TargetNext ==
    \E w \in 1..MaxWriters : SetMin(w) \/ SetMax(w) \/ RequestRefresh(w)
TargetSpec == WriteInit /\ [][TargetNext]_vars

-----------------------------------------------------------------------------
(* Properties of one poll (PollSpec).                                      *)

Polled == last_resp # NoResponse

\* the devices map of the current snapshot
Devices == IF data = None THEN EmptyMap ELSE data.v.devices

\* the parameter keys the vendor's answers to one device's getters carry:
\* the key of every getter that returns (for the stages and the backup
\* state, that returns something), and the temperatures of get_temperatures
SucceededKeys(answers) ==
    (IF answers[TEMPERATURES].ok THEN DOMAIN TemperatureParameters(answers[TEMPERATURES].v)
     ELSE {})
    \cup {g.key : g \in {x \in Range(IsolatedGetters) :
                            /\ answers[x.name].ok
                            /\ x.store = "if_truthy" => Truthy(answers[x.name].v)}}

\* the helpers whose device is the one stored under its id when the poll ends
HelpersStored(resp) ==
    {h \in HelpersBuilt(resp) : h[2] \in DOMAIN Devices /\ Devices[h[2]].building_id = h[1]}

\* the getters of a device that raise in a response
Raising(answers) == {g \in GetterNames : ~answers[g].ok}

\* C1: within one poll, for every device, if a single one of its getters
\* raises, the parameter of every other getter that succeeds is in the
\* device's parameter map.
C1_OneFailingGetterKeepsTheOthers ==
    (Polled /\ last_update_success) =>
        \A h \in HelpersStored(last_resp) :
            Cardinality(Raising(last_resp.getters[h])) = 1 =>
                SucceededKeys(last_resp.getters[h]) \subseteq DOMAIN Devices[h[2]].parameters

\* C2: a poll in which login succeeds and get_profile returns None or an
\* empty profile ends with ConfigEntryAuthFailed, never with UpdateFailed.
C2_NoProfileIsAuthFailed ==
    (/\ Polled
     /\ last_resp.login.ok
     /\ last_resp.get_profile.ok
     /\ ~Truthy(last_resp.get_profile.v))
        => (~last_update_success /\ last_exception = AUTH_FAILED)

C2_Witness ==
    /\ Polled
    /\ last_resp.login.ok
    /\ last_resp.get_profile = Ret(Dict(EmptyMap))
    /\ last_exception = AUTH_FAILED

\* the exception login, get_profile or get_buildings raises in a response
TopLevelRaise(resp) ==
    IF ~resp.login.ok THEN resp.login.exc
    ELSE IF ~resp.get_profile.ok THEN resp.get_profile.exc
    ELSE IF Truthy(resp.get_profile.v) /\ ~resp.get_buildings.ok THEN resp.get_buildings.exc
    ELSE "none"

\* C3: a poll in which login, get_profile or get_buildings raises anything
\* but ConfigEntryAuthFailed ends with UpdateFailed, and the poll returns no
\* snapshot.
C3_TopLevelFailureIsUpdateFailed ==
    (Polled /\ TopLevelRaise(last_resp) \notin {"none", AUTH_FAILED})
        => (~last_update_success /\ last_exception = UPDATE_FAILED /\ data = None)

C3_Witness ==
    /\ Polled
    /\ last_resp.login.ok
    /\ last_resp.get_profile.ok
    /\ last_resp.get_buildings = Raise(CLIENT_ERROR)
    /\ last_exception = UPDATE_FAILED
    /\ data = None

\* C4: a poll whose login is refused (the vendor rejects the credentials)
\* ends with ConfigEntryAuthFailed, not with UpdateFailed.
C4_RejectedLoginIsAuthFailed ==
    (Polled /\ last_resp.login = Raise(LOGIN_ERROR))
        => (~last_update_success /\ last_exception = AUTH_FAILED)

\* C5: a poll in which get_devices raises for a building ends with
\* UpdateFailed, not with a snapshot.
C5_GetDevicesFailureIsUpdateFailed ==
    (Polled /\ \E b \in BuildingsListed(last_resp) : ~last_resp.get_devices[b].ok)
        => (~last_update_success /\ last_exception = UPDATE_FAILED)

\* the devices a response lists for a building it lists
ListedIn(resp, b) ==
    IF b \in BuildingsListed(resp) /\ resp.get_devices[b].ok /\ Truthy(resp.get_devices[b].v)
    THEN Range(resp.get_devices[b].v.v)
    ELSE {}

\* C11: every device of a returned snapshot is keyed by its syncCode when it
\* has a non-empty one and by its id otherwise; the id of a device with a
\* syncCode is not the key of that device.
C11_KeyedBySyncCodeElseId ==
    (Polled /\ last_update_success) =>
        /\ \A k \in DOMAIN Devices :
              k = (IF Devices[k].syncCode # NoValue THEN Devices[k].syncCode
                   ELSE Devices[k].id)
        /\ \A b \in BuildingsListed(last_resp) : \A device \in ListedIn(last_resp, b) :
              /\ device.syncCode # NoValue => device.syncCode \in DOMAIN Devices
              /\ device.syncCode = NoValue => device.id \in DOMAIN Devices
              /\ (device.syncCode # NoValue /\ device.id \in DOMAIN Devices)
                    => Devices[device.id].id # device.id

\* a snapshot with one device under its sync code and one under its id
C11_Witness ==
    /\ Polled
    /\ last_update_success
    /\ "S1" \in DOMAIN Devices /\ Devices["S1"].id = "d1"
    /\ "d2" \in DOMAIN Devices /\ Devices["d2"].syncCode = NoValue
    /\ "d1" \notin DOMAIN Devices

\* C12: every device entry of a returned snapshot carries a parameters map
\* and the id of the building whose device listing produced the entry.
C12_DeviceCarriesItsBuilding ==
    (Polled /\ last_update_success) =>
        \A k \in DOMAIN Devices :
            /\ {"parameters", "building_id"} \subseteq DOMAIN Devices[k]
            /\ Devices[k].building_id \in BuildingsListed(last_resp)
            /\ \E device \in ListedIn(last_resp, Devices[k].building_id) :
                  /\ DeviceId(device) = k
                  /\ device.id = Devices[k].id
                  /\ device.name = Devices[k].name

\* both buildings' devices are in the snapshot, each with its own building
C12_Witness ==
    /\ Polled
    /\ last_update_success
    /\ "S1" \in DOMAIN Devices /\ Devices["S1"].building_id = "b1"
    /\ "d2" \in DOMAIN Devices /\ Devices["d2"].building_id = "b2"

\* C13: a poll that authenticates and gets no buildings (None or an empty
\* list), or whose buildings have no devices, returns a snapshot with an
\* empty devices map, and with an empty buildings list when there are no
\* buildings.
C13_NoBuildingsOrDevicesStillSucceeds ==
    (/\ Polled
     /\ last_resp.login.ok
     /\ last_resp.get_profile.ok /\ Truthy(last_resp.get_profile.v)
     /\ last_resp.get_buildings.ok
     /\ \A b \in BuildingsListed(last_resp) :
           last_resp.get_devices[b].ok /\ ~Truthy(last_resp.get_devices[b].v))
        => /\ last_update_success
           /\ last_exception = "none"
           /\ Devices = EmptyMap
           /\ ~Truthy(last_resp.get_buildings.v) => data.v.buildings = <<>>

\* the poll got None for the buildings
C13_Witness ==
    /\ Polled
    /\ last_resp.get_profile.ok
    /\ last_resp.get_buildings = Ret(None)
    /\ last_update_success
    /\ data.v.devices = EmptyMap
    /\ data.v.buildings = <<>>

\* the calls the poll of this state made
Calls == PollCalls(last_resp)

\* the positions of the calls of one name (and building) in the poll
CallsOf(name, building_id) ==
    {i \in 1..Len(Calls) : Calls[i].name = name /\ Calls[i].building_id = building_id}

\* the buildings the poll was given, when it got as far as asking for them
ListedBuildings ==
    IF last_resp.login.ok /\ last_resp.get_profile.ok /\ Truthy(last_resp.get_profile.v)
       /\ last_resp.get_buildings.ok /\ Truthy(last_resp.get_buildings.v)
    THEN last_resp.get_buildings.v.v ELSE <<>>

\* the order of C23: login first, then get_profile, then get_buildings, then
\* building by building in the order listed, a building's get_devices before
\* its parameter fetches and all of them before the next building's
\* get_devices; get_devices exactly once per listed building; nothing after
\* get_profile when the profile is empty
InFixedOrder ==
    /\ Calls[1].name = "login"
    /\ \A i \in CallsOf("get_profile", NoValue) : i = 2
    /\ \A i \in CallsOf("get_buildings", NoValue) : i = 3
    /\ (last_resp.login.ok /\ last_resp.get_profile.ok /\ ~Truthy(last_resp.get_profile.v))
            => Len(Calls) = 2
    /\ \A k \in 1..Len(ListedBuildings) :
            Cardinality(CallsOf("get_devices", ListedBuildings[k].id)) = 1
    /\ \A i \in 1..Len(Calls) :
            Calls[i].building_id # NoValue =>
                /\ i > 3
                /\ \E k \in 1..Len(ListedBuildings) :
                        ListedBuildings[k].id = Calls[i].building_id
                /\ \A j \in CallsOf("get_devices", Calls[i].building_id) : j <= i
    /\ \A k, l \in 1..Len(ListedBuildings) :
            k < l => \A i, j \in 1..Len(Calls) :
                        (Calls[i].building_id = ListedBuildings[k].id
                         /\ Calls[j].building_id = ListedBuildings[l].id) => i < j

\* C23 as stated: the fixed order, and login, get_profile and get_buildings
\* each called exactly once in every poll.
C23_EachCalledOncePerPoll ==
    Polled =>
        /\ InFixedOrder
        /\ \A name \in {"login", "get_profile", "get_buildings"} :
                Cardinality(CallsOf(name, NoValue)) = 1

\* C23, amended: the fixed order; login is called exactly once in every poll,
\* get_profile exactly once when login returned and not at all otherwise,
\* get_buildings exactly once when get_profile returned a profile and not at
\* all otherwise.
C23_CallsInFixedOrder ==
    Polled =>
        /\ InFixedOrder
        /\ Cardinality(CallsOf("login", NoValue)) = 1
        /\ Cardinality(CallsOf("get_profile", NoValue)) = (IF last_resp.login.ok THEN 1 ELSE 0)
        /\ Cardinality(CallsOf("get_buildings", NoValue)) =
                (IF last_resp.login.ok /\ last_resp.get_profile.ok
                    /\ Truthy(last_resp.get_profile.v) THEN 1 ELSE 0)

\* a poll of two buildings with a device each: 3 account calls, then per
\* building get_devices and the 16 fetches of its device
C23_Witness ==
    /\ Polled
    /\ last_update_success
    /\ Len(ListedBuildings) = 2
    /\ Len(Calls) = 37
    /\ Calls[4] = Call("get_devices", "b1", NoValue)
    /\ Calls[21] = Call("get_devices", "b2", NoValue)

\* C25: every poll ends in exactly one of three ways: it returns a snapshot
\* with the keys profile, buildings and devices, it raises
\* ConfigEntryAuthFailed, or it raises UpdateFailed; no other exception leaves
\* _async_update_data.
C25_ThreeOutcomes ==
    Polled =>
        /\ last_update_success =>
                /\ last_exception = "none"
                /\ data # None
                /\ DOMAIN data.v = {"profile", "buildings", "devices"}
        /\ ~last_update_success => last_exception \in {AUTH_FAILED, UPDATE_FAILED}

\* a poll whose login raised the vendor's LoginError ended with UpdateFailed
C25_Witness ==
    /\ Polled
    /\ last_resp.login = Raise(LOGIN_ERROR)
    /\ ~last_update_success
    /\ last_exception = UPDATE_FAILED

\* C26: in every returned snapshot each device a successful get_devices
\* returned is in the devices map under its key (syncCode, else id), with an
\* empty parameters map when every fetch made for it failed; the map has one
\* entry per distinct key, and where several listed devices have the same key
\* the entry is the one listed last.
C26_EveryListedDeviceOnceLastWins ==
    (Polled /\ last_update_success) =>
        LET B == ListedBuildings
            Lst(k) == LET a == last_resp.get_devices[B[k].id]
                      IN  IF a.ok /\ Truthy(a.v) THEN a.v.v ELSE <<>>
            Pos == UNION {{<<k, j>> : j \in 1..Len(Lst(k))} : k \in 1..Len(B)}
            KeyAt(p) == DeviceId(Lst(p[1])[p[2]])
            Before(p, q) == p[1] < q[1] \/ (p[1] = q[1] /\ p[2] < q[2])
        IN  /\ DOMAIN Devices = {KeyAt(p) : p \in Pos}
            /\ \A p \in Pos :
                  (\A q \in Pos : KeyAt(q) = KeyAt(p) => ~Before(p, q)) =>
                      LET device == Lst(p[1])[p[2]]
                          stored == Devices[KeyAt(p)]
                          answers == last_resp.getters[<<B[p[1]].id, KeyAt(p)>>]
                          made == GetterCalls(B[p[1]].id, KeyAt(p), answers)
                      IN  /\ stored.id = device.id
                          /\ stored.name = device.name
                          /\ stored.building_id = B[p[1]].id
                          /\ (\A i \in 1..Len(made) : ~answers[made[i].name].ok)
                                => stored.parameters = EmptyMap

\* building b1 lists a device with sync code S1 and building b2, after it, a
\* device whose id is S1: the snapshot holds the one of b2, and the other
\* device of b2
C26_Witness ==
    /\ Polled
    /\ last_update_success
    /\ last_resp.get_devices["b2"] = Ret(List(<<Device2, Device3>>))
    /\ DOMAIN Devices = {"S1", "d2"}
    /\ Devices["S1"].id = "S1"
    /\ Devices["S1"].building_id = "b2"

\* the HVAC Mode Priority selects the select platform creates from the snapshot
ModeSelects == IF data = None THEN {} ELSE PlatformSetupEntry("select", data)

\* C29: the hvac_mode a poll stores for a device is one of "heat", "cool" and
\* "auto" (priority 0 is heat, 1 is cool, 2 is auto and any other answer is
\* auto), so the current_option of the device's HVAC Mode Priority select is
\* None or one of the select's options.
C29_StoredModeIsAnOption ==
    Polled =>
        /\ \A id \in DOMAIN Devices :
            LET parameters == Devices[id].parameters
                answer == last_resp.getters[<<Devices[id].building_id, id>>]["get_hvac_mode_priority"]
            IN  "hvac_mode" \in DOMAIN parameters =>
                    /\ parameters["hvac_mode"] \in {Str(o) : o \in HvacModeOptions}
                    /\ answer = Ret(Num(0)) => parameters["hvac_mode"] = Str("heat")
                    /\ answer = Ret(Num(1)) => parameters["hvac_mode"] = Str("cool")
                    /\ answer.ok /\ answer.v \notin {Num(0), Num(1)}
                            => parameters["hvac_mode"] = Str("auto")
        /\ \A e \in ModeSelects : \A unit \in TemperatureUnits :
                \/ StateRead(e, data, unit) = None
                \/ StateRead(e, data, unit) \in {Str(o) : o \in HvacModeOptions}

\* the vendor answered a priority the map lacks (3, or None) for a device, and
\* the device's select reads "auto"
C29_Witness ==
    /\ Polled
    /\ \E e \in ModeSelects :
          /\ e.device_id \in DOMAIN Devices
          /\ last_resp.getters[<<Devices[e.device_id].building_id, e.device_id>>]
                ["get_hvac_mode_priority"] \in {Ret(Num(3)), Ret(None)}
          /\ StateRead(e, data, "F") = Str("auto")

-----------------------------------------------------------------------------
(* Properties of the config entry's life (Spec).                           *)

\* C6: after every successful poll the snapshot holds only what that poll
\* fetched: every device of the devices map is one the poll listed, and
\* every key of its parameter map is one the poll's getters returned.
C6_SnapshotRebuiltFromScratch ==
    (Polled /\ last_update_success) =>
        \A device_id \in DOMAIN Devices :
            \E h \in HelpersStored(last_resp) :
                /\ h[2] = device_id
                /\ DOMAIN Devices[device_id].parameters
                      \subseteq SucceededKeys(last_resp.getters[h])

\* an entity set up from an earlier snapshot whose key the last successful
\* poll did not fetch for its device
C6_Witness ==
    /\ Polled
    /\ last_update_success
    /\ \E e \in entities :
          /\ e.device_id \in DOMAIN Devices
          /\ e.cls = "HotTankMinTemperature"
          /\ e.key \notin DOMAIN Devices[e.device_id].parameters

EntitiesOf(cls, device_id) == {e \in entities : e.cls = cls /\ e.device_id = device_id}

HotTankReset(device_id) == Get(Devices[device_id].parameters, "hot_tank_outdoor_reset")

\* C9: after a successful update, for a device of the snapshot: when
\* hot_tank_outdoor_reset is "off" the Hot Tank Target Temperature control
\* is available and the Hot Tank Min and Max Temperature controls are not;
\* when it holds a value other than "off" the Min and Max controls are
\* available and the Target control is not.
C9_TargetOrMinMax ==
    last_update_success =>
        \A device_id \in DOMAIN Devices :
            LET Avail(cls) == {Available(e, data, last_update_success) :
                                  e \in EntitiesOf(cls, device_id)}
            IN  /\ HotTankReset(device_id) = OFF =>
                      /\ Avail("HotTankTargetTemperature") \subseteq {TRUE}
                      /\ Avail("HotTankMinTemperature") \subseteq {FALSE}
                      /\ Avail("HotTankMaxTemperature") \subseteq {FALSE}
                /\ HotTankReset(device_id) \notin {OFF, None} =>
                      /\ Avail("HotTankTargetTemperature") \subseteq {FALSE}
                      /\ Avail("HotTankMinTemperature") \subseteq {TRUE}
                      /\ Avail("HotTankMaxTemperature") \subseteq {TRUE}

\* the three controls of a device exist, and its outdoor reset went from
\* "off" at setup to a temperature in the current snapshot
C9_Witness ==
    /\ last_update_success
    /\ \E device_id \in DOMAIN Devices :
          /\ HotTankReset(device_id) = Temperature(0)
          /\ EntitiesOf("HotTankTargetTemperature", device_id) # {}
          /\ EntitiesOf("HotTankMinTemperature", device_id) # {}
          /\ EntitiesOf("HotTankMaxTemperature", device_id) # {}
          /\ \A e \in EntitiesOf("HotTankMinTemperature", device_id) :
                Available(e, data, last_update_success)
    /\ \E device_id \in DOMAIN Devices :
          /\ HotTankReset(device_id) = OFF
          /\ \E e \in EntitiesOf("HotTankTargetTemperature", device_id) :
                Available(e, data, last_update_success)

\* C17: for every switch, number, select and sensor entity, the state read
\* (is_on, native_value, current_option) is None when the coordinator has no
\* data and when the entity's device is not in the snapshot.
C17_NoDeviceReadsNone ==
    \A e \in {x \in entities : x.platform \in {"switch", "number", "select", "sensor"}}, unit \in TemperatureUnits :
        /\ StateRead(e, None, unit) = None
        /\ e.device_id \notin DOMAIN Devices => StateRead(e, data, unit) = None

\* after a successful poll that no longer lists the device of a number, while
\* a switch of a device still listed reports a state
C17_Witness ==
    /\ Polled
    /\ last_update_success
    /\ \E e \in entities :
          /\ e.platform = "number"
          /\ e.device_id \notin DOMAIN Devices
          /\ StateRead(e, data, "F") = None
    /\ \E e \in entities :
          /\ e.platform = "switch"
          /\ e.device_id \in DOMAIN Devices
          /\ StateRead(e, data, "F") # None

\* the device of the snapshot has a stage with the entity's title
HasStage(e) ==
    /\ e.device_id \in DOMAIN Devices
    /\ StageByTitle(Devices[e.device_id].parameters, e.title) # <<>>

\* C20: a heat pump stage entity (runtime sensor, running or enabled binary
\* sensor) is available exactly when the last update succeeded, its device is
\* in the snapshot and a stage with its title exists; when no stage with that
\* title exists its state is None.
C20_StageEntityFollowsItsStage ==
    \A e \in {x \in entities : x.cls \in {"HeatPumpStageRuntimeSensor", "HeatPumpStageBinarySensor"}} :
        /\ Available(e, data, last_update_success) <=> (last_update_success /\ HasStage(e))
        /\ ~HasStage(e) => \A unit \in TemperatureUnits : StateRead(e, data, unit) = None

\* after a successful poll that lists the device with Stage 1 only: the
\* entities of Stage 2 are unavailable and without state, those of Stage 1
\* available, the runtime sensor with its runtime
C20_Witness ==
    /\ Polled
    /\ last_update_success
    /\ \E e \in entities :
          /\ e.cls = "HeatPumpStageRuntimeSensor"
          /\ e.title = "Stage 2"
          /\ e.device_id \in DOMAIN Devices
          /\ ~HasStage(e)
          /\ ~Available(e, data, last_update_success)
          /\ StateRead(e, data, "F") = None
    /\ \E e \in entities :
          /\ e.cls = "HeatPumpStageRuntimeSensor"
          /\ e.title = "Stage 1"
          /\ Available(e, data, last_update_success)
          /\ StateRead(e, data, "F") = Str("100:05:30")

\* C21: a backup heater entity (runtime sensor, running or enabled binary
\* sensor) is unavailable and reads None whenever the snapshot holds no
\* backup_state for its device (None or absent), and is available when
\* backup_state exists, the device is in the snapshot and the last update
\* succeeded.
C21_BackupEntityFollowsBackupState ==
    \A e \in {x \in entities : x.cls \in {"BackupRuntimeSensor", "BackupBinarySensor"}} :
        LET backup_state == Get(ParametersOf(data, e.device_id), "backup_state")
        IN  /\ backup_state = None =>
                /\ ~Available(e, data, last_update_success)
                /\ \A unit \in TemperatureUnits : StateRead(e, data, unit) = None
            /\ (backup_state # None /\ e.device_id \in DOMAIN Devices /\ last_update_success)
                => Available(e, data, last_update_success)

\* after a successful poll in which the backup state of a device still listed
\* was not returned, while the backup runtime sensor of another device is
\* available and reads its runtime
C21_Witness ==
    /\ Polled
    /\ last_update_success
    /\ \E e \in entities :
          /\ e.cls = "BackupRuntimeSensor"
          /\ e.device_id \in DOMAIN Devices
          /\ Get(ParametersOf(data, e.device_id), "backup_state") = None
          /\ ~Available(e, data, last_update_success)
    /\ \E e \in entities :
          /\ e.cls = "BackupRuntimeSensor"
          /\ Available(e, data, last_update_success)
          /\ StateRead(e, data, "F") = Str("10:00:00")

\* the entities that are available against the coordinator's current state
AvailableEntities == {e \in entities : Available(e, data, last_update_success)}

\* the last poll ended with UpdateFailed or ConfigEntryAuthFailed
PollFailed == Polled /\ last_exception \in {UPDATE_FAILED, AUTH_FAILED}

-----------------------------------------------------------------------------
(* Properties of platform setup (SetupSpec).                               *)

KeyedPlatforms == {"switch", "number", "select"}

\* the parameter map of the entity's device in the snapshot the platforms
\* are set up from
SetupParameters(e) == ParametersOf(data, e.device_id)

\* C7 as stated: every entity of the switch, number and select platforms is
\* created only if the key it reads is in its device's parameter map, and no
\* entity is created when the coordinator has no data.
C7_CreatedOnlyIfKeyPresent ==
    /\ data = None => entities = {}
    /\ \A e \in entities :
          e.platform \in KeyedPlatforms => e.key \in DOMAIN SetupParameters(e)

\* the key async_setup_entry tests before it creates the class
SetupKey(e) == IF e.cls = "HotTankTargetTemperature" THEN "hot_tank_min_temp" ELSE e.key

\* C7: every entity of the switch, number and select platforms is created
\* only if the key it reads is in its device's parameter map, except the Hot
\* Tank Target Temperature, which reads target_temperature_tank and is
\* created only if hot_tank_min_temp is in the map; and no entity is created
\* when the coordinator has no data.
C7_CreatedOnlyIfSetupKeyPresent ==
    /\ data = None => entities = {}
    /\ \A e \in entities :
          e.platform \in KeyedPlatforms => SetupKey(e) \in DOMAIN SetupParameters(e)

\* the three platforms are set up from a snapshot without hvac_mode
C7_Witness ==
    /\ KeyedPlatforms \subseteq platforms_done
    /\ data # None
    /\ "hvac_mode" \notin DOMAIN Devices[MOCK_DEVICE_ID].parameters
    /\ \A e \in entities : e.cls # "HvacModePrioritySelect"
    /\ \E e \in entities : e.cls = "HotTankTargetTemperature"

BackupClasses ==
    {"BackupRuntimeSensor", "BackupBinarySensor",
     "BackupLagTimeSwitch", "BackupDifferentialSwitch", "BackupOnlyOutdoorTempSwitch",
     "BackupTempSwitch", "BackupOnlyTankTempSwitch",
     "BackupLagTime", "BackupDifferential", "BackupOnlyOutdoorTemp", "BackupTemp",
     "BackupOnlyTankTemp"}

\* C10: for a device whose backup_state is absent or falsy, setup creates no
\* backup-related entity on any platform.
C10_NoBackupEntitiesWithoutBackupState ==
    \A e \in entities :
        ~Truthy(Get(SetupParameters(e), "backup_state")) => e.cls \notin BackupClasses

\* the switches that are on when their parameter holds a value and off when it
\* holds "off"
OffValueSwitches ==
    {"BackupDifferentialSwitch", "BackupOnlyOutdoorTempSwitch", "BackupTempSwitch",
     "WidePriorityDifferentialSwitch", "BackupOnlyTankTempSwitch",
     "HotTankOutdoorResetSwitch", "ColdTankOutdoorResetSwitch",
     "WarmWeatherShutdownSwitch", "ColdWeatherShutdownSwitch",
     "RotateCyclesSwitch", "RotateTimeSwitch", "BackupLagTimeSwitch"}

\* C18: every off/value switch reports is_on False when its parameter is "off"
\* and True when it holds anything else but None.
C18_OffValueSwitchIsOnUnlessOff ==
    \A e \in {x \in entities : x.cls \in OffValueSwitches}, unit \in TemperatureUnits :
        LET value == Get(ParametersOf(data, e.device_id), e.key)
        IN  /\ value = OFF => StateRead(e, data, unit) = Bool(FALSE)
            /\ (value # OFF /\ value # None) => StateRead(e, data, unit) = Bool(TRUE)

-----------------------------------------------------------------------------
(* Properties of the entity writes (WriteSpec).                             *)

\* a write has been made
Written == last_write.cls # NoValue

\* the vendor setter that writes each parameter: set_<parameter>, off_staging too,
\* but for three
VendorSetters ==
    [permanent_heat_demand |-> "set_permanent_hd",
     permanent_cool_demand |-> "set_permanent_cd",
     off_staging |-> "set_off_staging",
     hvac_mode |-> "set_hvac_mode_priority",
     hot_tank_min_temp |-> "set_hot_tank_min_temp", hot_tank_max_temp |-> "set_hot_tank_max_temp",
     hot_tank_outdoor_reset |-> "set_hot_tank_outdoor_reset",
     cold_tank_min_temp |-> "set_cold_tank_min_temp", cold_tank_max_temp |-> "set_cold_tank_max_temp",
     cold_tank_outdoor_reset |-> "set_cold_tank_outdoor_reset",
     warm_weather_shutdown |-> "set_warm_weather_shutdown",
     cold_weather_shutdown |-> "set_cold_weather_shutdown",
     stage_on_lag_time |-> "set_stage_on_lag_time", stage_off_lag_time |-> "set_stage_off_lag_time",
     rotate_cycles |-> "set_rotate_cycles", rotate_time |-> "set_rotate_time",
     backup_lag_time |-> "set_backup_lag_time", backup_differential |-> "set_backup_differential",
     hot_tank_differential |-> "set_hot_tank_differential",
     cold_tank_differential |-> "set_cold_tank_differential",
     backup_only_outdoor_temp |-> "set_backup_only_outdoor_temp",
     number_of_stages |-> "set_number_of_stages", backup_temp |-> "set_backup_temp",
     wide_priority_differential |-> "set_wide_priority_differential",
     weather_shutdown_lag_time |-> "set_weather_shutdown_lag_time",
     two_stage_heat_pump |-> "set_two_stage_heat_pump",
     heat_cool_switch_delay |-> "set_heat_cool_switch_delay",
     backup_only_tank_temp |-> "set_backup_only_tank_temp"]

\* the two tank target numbers have no parameter of their own to set: the
\* target is the tank's minimum and maximum
TankTargets ==
    [HotTankTargetTemperature |-> <<"hot_tank_min_temp", "hot_tank_max_temp">>,
     ColdTankTargetTemperature |-> <<"cold_tank_min_temp", "cold_tank_max_temp">>]

\* the setters of an entity's own parameter, from the key its state is read from
OwnSetters(e) ==
    IF e.cls \in DOMAIN TankTargets
    THEN {VendorSetters[TankTargets[e.cls][i]] : i \in 1..2}
    ELSE {VendorSetters[e.key]}

SetCalls(w) == {i \in 1..Len(w.calls) : w.calls[i].op = "set"}
RefreshCalls(w) == {i \in 1..Len(w.calls) : w.calls[i].op = "refresh"}

\* C16: every entity write awaits the vendor setters of the entity's own
\* parameter, each addressed to the entity's building and device, each of the
\* own setters once; when they have all returned it requests exactly one
\* refresh, as its last step, and none when a setter raised; the write itself
\* leaves the snapshot as it was.
C16_WriteSetsThenRefreshesOnce ==
    Written =>
        LET w == last_write
            e == w.entity
        IN  /\ \A i \in SetCalls(w) :
                    /\ w.calls[i].setter \in OwnSetters(e)
                    /\ w.calls[i].building_id = data.v.devices[e.device_id].building_id
                    /\ w.calls[i].device_id = e.device_id
            /\ w.raises = 0 =>
                    /\ \A setter \in OwnSetters(e) :
                            Cardinality({i \in SetCalls(w) : w.calls[i].setter = setter}) = 1
                    /\ RefreshCalls(w) = {Len(w.calls)}
                    /\ SetCalls(w) = 1..(Len(w.calls) - 1)
            /\ w.raises # 0 => RefreshCalls(w) = {}
            /\ data = w.before

\* a switch of the second building's device was turned on or off and its
\* setter returned
C16_Witness ==
    /\ Written
    /\ last_write.raises = 0
    /\ last_write.entity.platform = "switch"
    /\ data.v.devices[last_write.entity.device_id].building_id = "b2"

C28_SetterErrorPropagates ==
    (Written /\ last_write.raises # 0) =>
        LET w == last_write
        IN  /\ w.outcome = Raise("VendorError")
            /\ Len(w.calls) = w.raises
            /\ RefreshCalls(w) = {}
            /\ data = w.before
            /\ \A e \in entities :
                    /\ Available(e, data, last_update_success)
                            = Available(e, w.before, last_update_success)
                    /\ \A unit \in TemperatureUnits :
                            StateRead(e, data, unit) = StateRead(e, w.before, unit)

\* the only setter of a select's write raised, and so did the second setter
\* of a number's
C28_Witness ==
    /\ Written
    /\ \/ last_write.entity.platform = "select" /\ last_write.raises = 1
       \/ last_write.entity.platform = "number" /\ last_write.raises = 2

-----------------------------------------------------------------------------
(* Properties of the coordinator's construction (IntervalSpec).            *)

\* C14: the poll interval is within [60, 3600] seconds whatever scan_interval the
\* config entry holds, and is 300 seconds when the entry holds none.
C14_IntervalClamped ==
    /\ MIN_SCAN_INTERVAL <= update_interval
    /\ update_interval <= MAX_SCAN_INTERVAL
    /\ entry_scan_interval = None => update_interval = DEFAULT_SCAN_INTERVAL

-----------------------------------------------------------------------------
(* Properties of the Hot Tank Target writes (TargetSpec).                  *)

\* no caller of async_set_native_value is between its first await and its return
NoWriteInProgress == \A w \in 1..MaxWriters : hot_tank.at[w] = "idle"

\* C27: the hot tank min and max start equal and are written only by Hot Tank
\* Target set-value operations; whenever no such write is in progress, the
\* device's min and max are equal.
C27_MinEqualsMaxBetweenWrites == NoWriteInProgress => hot_tank.min = hot_tank.max

====
